---- MODULE Spec2Model ----
(***************************************************************************)
(* Model of the Withvibes OpenCode plugin (src/unnamed/part_004): the      *)
(* chat.message ingestion hook, its serial storage queue (p-queue with     *)
(* concurrency 1), the chunking and routing of message text, the remember  *)
(* tool and the beforeExit flush handler.                                  *)
(*                                                                         *)
(* Strings are sequences of character codes.  JavaScript strings are       *)
(* immutable values: the state holds, for a message part, the index of its *)
(* text in TextTable, and the text itself is computed from the table       *)
(* whenever the code reads, joins, measures or slices it.                  *)
(***************************************************************************)
EXTENDS Integers, Sequences, FiniteSets

\* ------------------------------------------------------------------ bounds
\* Number of chat.message calls the host makes in one run.
MaxCalls == 3
\* Number of chat.message calls in a burst that builds a backlog.
MaxBacklog == 13
\* Number of plugin processes started in one run.
MaxStarts == 2
\* Number of remember tool calls in one run.
MaxRemember == 1
\* Number of calls of the memory tools when they are run on their own.
MaxToolCalls == 2
\* Number of SKILL.md files in the skills directory.
MaxSkills == 2
\* Number of calls of the skills' tools in one run.
MaxInvocations == 2
\* Largest multiple of the segment size among the texts of the chunking
\* runs.
MaxSegments == 2
\* Lengths next to every boundary (0, the direct limit, each multiple of the
\* segment size) that the chunking runs draw, on both sides of the boundary.
Margin == 3
\* Number of character patterns (seeds 0..MaxSeed) of the chunking runs.
MaxSeed == 2
\* Number of merges of one config object.
MaxMerges == 3
\* Number of atomicWrite calls in one run.
MaxWrites == 2

\* ------------------------------------------------------- program constants
\* if (textContent.length <= 2500)
DIRECT_LIMIT == 2500
\* chunkMessage(textContent, 4500)
SEGMENT_LIMIT == 4500
\* "Use 4500 to be safe under 5000 limit"
STORE_MAX_PAYLOAD == 5000
\* if (trimmedFact.length > 2500)
FACT_MAX == 2500
\* if (queueSize > 10)
BACKLOG_WARN == 10
\* A queue that lets two jobs run at once.
ConcurrencyTwo == 1 + 1

\* new PQueue({ concurrency: 1 })
Concurrency == 1

\* --------------------------------------------------------------- characters
NL == 10
SP == 32
\* if (trimmedQuery.length > 500)
QUERY_MAX == 500
\* limit: 5
SEARCH_LIMIT == 5
\* description: z.string().min(20)
DESCRIPTION_MIN == 20

\* A text of n characters whose character at position i depends on i, so that
\* a dropped, repeated or displaced slice changes the text.
Pattern(n, seed) == [i \in 1..n |-> 97 + ((i + seed) % 23)]

Hello == <<104, 101, 108, 108, 111>>

\* ------------------------------------------------------------ chunkMessage
\* text.substring(a, b) with 0 <= a <= b, 0-based, b exclusive, clamped to
\* the length of the text.
Min(a, b) == IF a < b THEN a ELSE b

Substring(text, a, b) == SubSeq(text, Min(a, Len(text)) + 1, Min(b, Len(text)))

\* for (let i = 0; i < text.length; i += maxSize)
\*   chunks.push(text.substring(i, i + maxSize));
RECURSIVE ChunkLoop(_, _, _, _)
ChunkLoop(text, maxSize, i, chunks) ==
  IF i < Len(text)
    THEN ChunkLoop(text, maxSize, i + maxSize,
                   Append(chunks, Substring(text, i, i + maxSize)))
    ELSE chunks

\* Variants of the loop: one that stops before a short last chunk, one that
\* runs once more when the length is a multiple of maxSize.
RECURSIVE ChunkLoopFullOnly(_, _, _, _)
ChunkLoopFullOnly(text, maxSize, i, chunks) ==
  IF i + maxSize <= Len(text)
    THEN ChunkLoopFullOnly(text, maxSize, i + maxSize,
                           Append(chunks, Substring(text, i, i + maxSize)))
    ELSE chunks

RECURSIVE ChunkLoopInclusive(_, _, _, _)
ChunkLoopInclusive(text, maxSize, i, chunks) ==
  IF i <= Len(text)
    THEN ChunkLoopInclusive(text, maxSize, i + maxSize,
                            Append(chunks, Substring(text, i, i + maxSize)))
    ELSE chunks

chunkMessageFullOnly(text, maxSize) == ChunkLoopFullOnly(text, maxSize, 0, <<>>)

chunkMessageInclusive(text, maxSize) == ChunkLoopInclusive(text, maxSize, 0, <<>>)

chunkMessage(text, maxSize) == ChunkLoop(text, maxSize, 0, <<>>)

\* chunks.join("") : the segments put back together in emission order.
RECURSIVE Concat(_)
Concat(chunks) ==
  IF chunks = <<>> THEN <<>> ELSE Head(chunks) \o Concat(Tail(chunks))

\* ------------------------------------------------------------------ inputs
\* The texts that message parts carry.
TextTable ==
  << <<>>,
     Hello,
     Pattern(DIRECT_LIMIT, 0),
     Pattern(DIRECT_LIMIT + 1, 1),
     Pattern(SEGMENT_LIMIT + 1500, 2),
     Pattern((2 * SEGMENT_LIMIT) + 1, 3) >>

TextPart(k) == [type |-> "text", text |-> k]
FilePart == [type |-> "file"]

\* The output objects the host passes to the chat.message hook:
\* output.message.role and output.parts.
OutputTable ==
  << [role |-> "user",      parts |-> <<TextPart(2)>>],
     [role |-> "assistant", parts |-> <<FilePart, TextPart(1)>>],
     [role |-> "user",      parts |-> <<TextPart(3)>>],
     [role |-> "assistant", parts |-> <<TextPart(5)>>],
     [role |-> "system",    parts |-> <<TextPart(2), FilePart, TextPart(2)>>],
     [role |-> "assistant", parts |-> <<TextPart(4)>>],
     [role |-> "user",      parts |-> <<FilePart>>],
     [role |-> "user",      parts |-> <<TextPart(6)>>] >>

\* ---------------------------------------------------- text extraction
\* output.parts.filter((part) => 'text' in part).map((part) => part.text)
RECURSIVE PartTexts(_)
PartTexts(parts) ==
  IF parts = <<>> THEN <<>>
  ELSE IF Head(parts).type = "text"
    THEN <<Head(parts).text>> \o PartTexts(Tail(parts))
    ELSE PartTexts(Tail(parts))

\* .join('\n') over the texts named by the indices ks.
RECURSIVE Join(_)
Join(ks) ==
  IF ks = <<>> THEN <<>>
  ELSE IF Len(ks) = 1 THEN TextTable[ks[1]]
  ELSE TextTable[ks[1]] \o <<NL>> \o Join(Tail(ks))

\* A check that takes no text for empty.
IsEmptyTextNever(text) == FALSE

\* if (!textContent) : the empty string is the only falsy string.
IsEmptyText(text) == Len(text) = 0

\* The comparison written with < in place of <=.
IsDirectStrict(text) == Len(text) < DIRECT_LIMIT

\* if (textContent.length <= 2500)
IsDirect(text) == Len(text) <= DIRECT_LIMIT

\* message.role === 'user' ? 'user' : 'assistant'
StoreRole(role) == IF role = "user" THEN "user" ELSE "assistant"

\* ------------------------------------------------------------------- state
VARIABLES
  asyncStorage,  \* process.env.ZEP_ASYNC_STORAGE !== 'false'
  outputs,       \* outputs[c]: the output object the host passed to call c
  calls,         \* calls[c]: the chat.message call c, as the host sees it
  jobs,          \* jobs[c]: the job call c added to storageQueue
  waiting,       \* storageQueue's FIFO of jobs not started (storageQueue.size)
  pending,       \* storageQueue.pending: jobs started and not finished
  requests,      \* requests sent to the store that it has not answered
  storeLog,      \* history: the requests of the queue's jobs and the store's
                 \* answers to them, in the order they happened
  remembers,     \* remembers[r]: call r of the remember tool
  exit,          \* the latest run of the beforeExit handler
  unhandled,     \* a promise was rejected with no handler attached
  text,          \* chunking runs: the text handed to chunkMessage
  segments,      \* chunking runs: what chunkMessage returned
  phase,         \* chunking runs: "input" before the call, "chunked" after
  env,           \* process.env of the plugin process the host has launched
  directory,     \* the directory the host passes to that process
  clock,         \* Date.now()
  launch,        \* "launched": a process is started, its plugin not loaded
  plugins,       \* plugins[p]: the p-th plugin instance loaded (one per
                 \* process), with what its start has done so far
  zepStore,      \* the users and threads that exist in the store
  skillsDir,     \* the SKILL.md files under ../skills, in the order glob.scan
                 \* yields them (indices in ManifestTable)
  recalls,       \* recalls[r]: call r of the recall tool
  invocations,   \* invocations[i]: call i of a skills_* tool
  session,       \* the messages client.session.prompt has put into the
                 \* host's conversations, in the order they were accepted
  merged,        \* the config object mergeConfig works on, with the number
                 \* of merges made and the options of the last one
  disk,          \* the files of the project directory the setup tool
                 \* touches: disk[f] is the content of file f
  write,         \* the atomicWrite call under way
  setup          \* the run of bin/setup.js

vars == <<asyncStorage, outputs, calls, jobs, waiting, pending, requests,
          storeLog, remembers, exit, unhandled, text, segments, phase,
          env, directory, clock, launch, plugins, zepStore,
          skillsDir, recalls, invocations, session,
          merged, disk, write, setup>>

startVars == <<env, directory, clock, launch, plugins, zepStore>>
pipelineVars == <<asyncStorage, outputs, calls, jobs, waiting, pending,
                  requests, storeLog, remembers, exit, unhandled>>

toolVars == <<skillsDir, recalls, invocations, session>>
queueVars == <<outputs, calls, jobs, waiting, pending>>
chunkVars == <<text, segments, phase>>
cliVars == <<merged, disk, write, setup>>

\* ------------------------------------------------------ the job's function
\* The store calls made without await: the job goes on at once and nobody
\* handles the promise of the call.
StoreCallFloating == FALSE

\* await zep.thread.addMessages(...) / await zep.graph.add(...): the job
\* is suspended until the store answers.
StoreCallAwaited == TRUE

\* } catch (error) { console.error(...) } : the error is logged and the
\* function returns normally, so the job's promise is fulfilled.
JobCatch == "fulfilled"

\* A request of job j to the store: the operation, the chunk number, the
\* role sent, the texts whose join the data is cut from, and the length of
\* the data.
Request(j, op, seg, role, ks, len) ==
  [by |-> "job", n |-> j, op |-> op, seg |-> seg, role |-> role,
   texts |-> ks, len |-> len, awaited |-> StoreCallAwaited]

\* What a request carries: the whole text for thread.addMessages, chunk
\* number seg (0-based) for graph.add.
JobData(r) ==
  IF r.op = "thread.addMessages" THEN Join(r.texts)
  ELSE chunkMessage(Join(r.texts), SEGMENT_LIMIT)[r.seg + 1]

JobReturned(job, result) ==
  [job EXCEPT !.st = "returned", !.pc = "end", !.result = result]

\* for (let i = 0; i < chunks.length; i++) { await zep.graph.add(...) }
\* entered at index i: runs until the function is suspended or has returned.
\* job.sizes holds chunks[k].length for the chunks array of the job.
GraphFrom(j, job, i) ==
  IF i < Len(job.sizes)
    THEN IF StoreCallAwaited
      THEN [job  |-> [job EXCEPT !.st = "running", !.pc = "graph", !.i = i],
            reqs |-> << Request(j, "graph.add", i, "-", job.texts,
                                job.sizes[i + 1]) >>]
      ELSE [job  |-> JobReturned([job EXCEPT !.i = Len(job.sizes)], "fulfilled"),
            reqs |-> [k \in 1..(Len(job.sizes) - i) |->
                       Request(j, "graph.add", i + k - 1, "-", job.texts,
                               job.sizes[i + k])]]
    ELSE [job |-> JobReturned([job EXCEPT !.i = i], "fulfilled"), reqs |-> <<>>]

\* The job's function from its first line to its first suspension (lines
\* 331-373): it reads output now, when the queue starts it.
StartJob(j, out) ==
  LET ks == PartTexts(out.parts)
      textContent == Join(ks)
      job == [st |-> "running", pc |-> "start", texts |-> ks, i |-> 0,
              sizes |-> <<>>, result |-> "none"]
  IN IF IsEmptyText(textContent)
       THEN [job |-> JobReturned(job, "fulfilled"), reqs |-> <<>>]
     ELSE IF IsDirect(textContent)
       THEN [job  |-> IF StoreCallAwaited
                        THEN [job EXCEPT !.pc = "direct"]
                        ELSE JobReturned(job, "fulfilled"),
             reqs |-> << Request(j, "thread.addMessages", 0,
                                 StoreRole(out.role), ks, Len(textContent)) >>]
     ELSE LET chunks == chunkMessage(textContent, SEGMENT_LIMIT)
          IN GraphFrom(j, [job EXCEPT !.sizes =
                             [k \in 1..Len(chunks) |-> Len(chunks[k])]], 0)

\* A job whose chunk loop catches the store's error inside the loop and goes
\* on with the next chunk.
ResumeJobContinue(j, job, ok) ==
  IF job.pc = "direct"
    THEN [job |-> JobReturned(job, "fulfilled"), reqs |-> <<>>]
  ELSE GraphFrom(j, job, job.i + 1)

\* A job whose direct write is not followed by return, so that a short
\* message goes on to be chunked and sent through graph.add as well.
ResumeJobFallThrough(j, job, ok) ==
  IF ~ok
    THEN [job |-> JobReturned(job, JobCatch), reqs |-> <<>>]
  ELSE IF job.pc = "direct"
    THEN LET chunks == chunkMessage(Join(job.texts), SEGMENT_LIMIT)
         IN GraphFrom(j, [job EXCEPT !.sizes =
                            [k \in 1..Len(chunks) |-> Len(chunks[k])]], 0)
  ELSE GraphFrom(j, job, job.i + 1)

\* The job's function resumed by the store's answer to the request it awaits.
ResumeJob(j, job, ok) ==
  IF ~ok
    THEN [job |-> JobReturned(job, JobCatch), reqs |-> <<>>]
  ELSE IF job.pc = "direct"
    THEN [job |-> JobReturned(job, "fulfilled"), reqs |-> <<>>]
  ELSE GraphFrom(j, job, job.i + 1)

\* ------------------------------------------------------------ storageQueue
\* A queue that hands out its newest waiting job.
DequeueNewest(w) == Len(w)

\* The queue hands out its oldest waiting job.
DequeueIndex(w) == 1

Without(w, k) == SubSeq(w, 1, k - 1) \o SubSeq(w, k + 1, Len(w))

\* A queue that is paused (autoStart: false) and never starts a job.
TryToStartAnotherPaused(w, p, js, outs) ==
  [waiting |-> w, pending |-> p, jobs |-> js, reqs |-> <<>>,
   idle |-> (w = <<>> /\ p = 0)]

\* PQueue's start of the next job, run at the end of add() and when a job
\* finishes: a waiting job is started if fewer than Concurrency are running;
\* the queue is idle when nothing waits and nothing runs.
TryToStartAnother(w, p, js, outs) ==
  IF w # <<>> /\ p < Concurrency
    THEN LET j == w[DequeueIndex(w)]
             r == StartJob(j, outs[j])
         IN [waiting |-> Without(w, DequeueIndex(w)), pending |-> p + 1,
             jobs |-> [js EXCEPT ![j] = r.job], reqs |-> r.reqs,
             idle |-> FALSE]
    ELSE [waiting |-> w, pending |-> p, jobs |-> js, reqs |-> <<>>,
          idle |-> (w = <<>> /\ p = 0)]

\* Requests rs leave for the store, in order.
Issued(rs) == { rs[k] : k \in 1..Len(rs) }

LogIssued(log, rs) == log \o [k \in 1..Len(rs) |-> [ev |-> "issue", req |-> rs[k]]]

QueuedJob == [st |-> "queued", pc |-> "start", texts |-> <<>>, i |-> 0,
              sizes |-> <<>>, result |-> "none"]

\* The write of call c is still open: its job has not run to its end, or a
\* request of the job is with the store.
WriteOpen(c, js, reqs) ==
  \/ js[c].st \in {"queued", "running"}
  \/ \E r \in reqs : r.by = "job" /\ r.n = c

\* ---------------------------------------------------------------- remember
\* The facts the agent passes to the remember tool; isString FALSE is an
\* argument that is missing or no string.
FactTable ==
  << [isString |-> FALSE, chars |-> <<>>],
     [isString |-> TRUE,  chars |-> <<>>],
     [isString |-> TRUE,  chars |-> <<SP, NL, SP>>],
     [isString |-> TRUE,  chars |-> <<SP>> \o Hello \o <<SP>>],
     [isString |-> TRUE,  chars |-> Pattern(FACT_MAX, 3)],
     [isString |-> TRUE,  chars |-> Pattern(FACT_MAX + 1, 4)],
     [isString |-> TRUE,  chars |-> <<SP>> \o Pattern(FACT_MAX, 5) \o <<NL>>],
     [isString |-> TRUE,  chars |-> <<SP, SP>> \o Pattern(FACT_MAX + 1, 6)],
     [isString |-> TRUE,  chars |-> Pattern(FACT_MAX + Margin, 7) \o <<SP>>] >>

IsSpace(ch) == ch \in {SP, NL, 9, 13}

\* String.prototype.trim
RECURSIVE TrimStart(_)
TrimStart(str) ==
  IF str # <<>> /\ IsSpace(Head(str)) THEN TrimStart(Tail(str)) ELSE str

RECURSIVE TrimEnd(_)
TrimEnd(str) ==
  IF str # <<>> /\ IsSpace(str[Len(str)])
    THEN TrimEnd(SubSeq(str, 1, Len(str) - 1)) ELSE str

Trim(str) == TrimEnd(TrimStart(str))

\* "[MEMORY] "
MemoryPrefix == <<91, 77, 69, 77, 79, 82, 89, 93, SP>>

\* `${n}` for a number n >= 0: its decimal digits.
RECURSIVE Digits(_)
Digits(n) == IF n < 10 THEN <<48 + n>> ELSE Digits(n \div 10) \o <<48 + (n % 10)>>

\* The strings of the remember tool.
\* "Error: "
ErrorPrefix ==
  <<69, 114, 114, 111, 114, 58, 32>>

\* "Error: Fact is required and must be a string"
FactRequired ==
  <<69, 114, 114, 111, 114, 58, 32, 70, 97, 99, 116, 32, 105, 115, 32, 114, 101, 113, 117, 105, 114, 101, 100, 32, 97, 110, 100, 32, 109, 117, 115, 116, 32, 98, 101, 32, 97, 32, 115, 116, 114, 105, 110, 103>>

\* "Error: Fact cannot be empty"
FactEmpty ==
  <<69, 114, 114, 111, 114, 58, 32, 70, 97, 99, 116, 32, 99, 97, 110, 110, 111, 116, 32, 98, 101, 32, 101, 109, 112, 116, 121>>

\* "Error: Fact is too long ("
FactTooLong ==
  <<69, 114, 114, 111, 114, 58, 32, 70, 97, 99, 116, 32, 105, 115, 32, 116, 111, 111, 32, 108, 111, 110, 103, 32, 40>>

\* " characters, max 2500)"
FactTooLongEnd ==
  <<32, 99, 104, 97, 114, 97, 99, 116, 101, 114, 115, 44, 32, 109, 97, 120, 32, 50, 53, 48, 48, 41>>

\* "Remembered: "
RememberedPrefix ==
  <<82, 101, 109, 101, 109, 98, 101, 114, 101, 100, 58, 32>>

\* "Failed to store memory: "
StoreFailedPrefix ==
  <<70, 97, 105, 108, 101, 100, 32, 116, 111, 32, 115, 116, 111, 114, 101, 32, 109, 101, 109, 111, 114, 121, 58, 32>>

\* "API Error "
ApiError ==
  <<65, 80, 73, 32, 69, 114, 114, 111, 114, 32>>

\* "Unknown Error"
UnknownError ==
  <<85, 110, 107, 110, 111, 119, 110, 32, 69, 114, 114, 111, 114>>

\* " - "
DashSep ==
  <<32, 45, 32>>

\* ". Check ZEP_API_KEY and network connection."
CheckKeyHint ==
  <<46, 32, 67, 104, 101, 99, 107, 32, 90, 69, 80, 95, 65, 80, 73, 95, 75, 69, 89, 32, 97, 110, 100, 32, 110, 101, 116, 119, 111, 114, 107, 32, 99, 111, 110, 110, 101, 99, 116, 105, 111, 110, 46>>

\* "undefined"
Undefined ==
  <<117, 110, 100, 101, 102, 105, 110, 101, 100>>

\* The fact passes the validation.
FactOk == [ok |-> TRUE, message |-> <<>>]

\* A validation that tests the fact as given for emptiness.
ValidateFactUntrimmed(fact) ==
  IF ~fact.isString \/ Len(fact.chars) = 0
    THEN [ok |-> FALSE, message |-> FactRequired]
  ELSE IF Len(fact.chars) = 0
    THEN [ok |-> FALSE, message |-> FactEmpty]
  ELSE IF Len(Trim(fact.chars)) > FACT_MAX
    THEN [ok |-> FALSE,
          message |-> FactTooLong \o Digits(Len(Trim(fact.chars))) \o FactTooLongEnd]
  ELSE FactOk

\* A validation whose message gives the length of the fact as given.
ValidateFactCitesInput(fact) ==
  IF ~fact.isString \/ Len(fact.chars) = 0
    THEN [ok |-> FALSE, message |-> FactRequired]
  ELSE IF Len(Trim(fact.chars)) = 0
    THEN [ok |-> FALSE, message |-> FactEmpty]
  ELSE IF Len(Trim(fact.chars)) > FACT_MAX
    THEN [ok |-> FALSE,
          message |-> FactTooLong \o Digits(Len(fact.chars)) \o FactTooLongEnd]
  ELSE FactOk

\* Lines 208-220: the validation of remember's argument: the fact passes,
\* or the call returns the message at once.
\*   if (!args.fact || typeof args.fact !== 'string') return '...required...'
\*   const trimmedFact = args.fact.trim();
\*   if (trimmedFact.length === 0) return '...empty'
\*   if (trimmedFact.length > 2500) return `...too long (${trimmedFact.length} ...`
ValidateFact(fact) ==
  IF ~fact.isString \/ Len(fact.chars) = 0
    THEN [ok |-> FALSE, message |-> FactRequired]
  ELSE IF Len(Trim(fact.chars)) = 0
    THEN [ok |-> FALSE, message |-> FactEmpty]
  ELSE IF Len(Trim(fact.chars)) > FACT_MAX
    THEN [ok |-> FALSE,
          message |-> FactTooLong \o Digits(Len(Trim(fact.chars))) \o FactTooLongEnd]
  ELSE FactOk

\* ------------------------------------------------------------------ recall
\* The queries the agent passes to the recall tool.
QueryTable ==
  << [isString |-> FALSE, chars |-> <<>>],
     [isString |-> TRUE,  chars |-> <<>>],
     [isString |-> TRUE,  chars |-> <<SP, SP, NL, SP>>],
     \* " backend "
     [isString |-> TRUE,  chars |-> <<32, 98, 97, 99, 107, 101, 110, 100, 32>>],
     [isString |-> TRUE,  chars |-> Pattern(QUERY_MAX, 1)],
     [isString |-> TRUE,  chars |-> Pattern(QUERY_MAX + 1, 2)],
     [isString |-> TRUE,  chars |-> <<SP>> \o Pattern(QUERY_MAX, 3) \o <<SP>>],
     [isString |-> TRUE,  chars |-> <<NL>> \o Pattern(QUERY_MAX + Margin, 4)] >>

\* What the store answers a search with: results (or nothing), its edges (or
\* none), and for each edge its fact (or none; an edge may be null).
\* The facts: "uses Convex", "likes tea", "a", "b", "c".
SearchResults ==
  << [present |-> FALSE, hasEdges |-> FALSE, edges |-> <<>>],
     [present |-> TRUE,  hasEdges |-> FALSE, edges |-> <<>>],
     [present |-> TRUE,  hasEdges |-> TRUE,  edges |-> <<>>],
     [present |-> TRUE,  hasEdges |-> TRUE,  edges |->
        << [present |-> TRUE, hasFact |-> TRUE,
            fact |-> <<117, 115, 101, 115, 32, 67, 111, 110, 118, 101, 120>>] >>],
     [present |-> TRUE,  hasEdges |-> TRUE,  edges |->
        << [present |-> TRUE, hasFact |-> FALSE, fact |-> <<>>],
           [present |-> FALSE, hasFact |-> FALSE, fact |-> <<>>] >>],
     [present |-> TRUE,  hasEdges |-> TRUE,  edges |->
        << [present |-> TRUE, hasFact |-> TRUE,
            fact |-> <<117, 115, 101, 115, 32, 67, 111, 110, 118, 101, 120>>],
           [present |-> TRUE, hasFact |-> TRUE,
            fact |-> <<108, 105, 107, 101, 115, 32, 116, 101, 97>>],
           [present |-> TRUE, hasFact |-> TRUE, fact |-> <<97>>],
           [present |-> TRUE, hasFact |-> TRUE, fact |-> <<98>>],
           [present |-> TRUE, hasFact |-> TRUE, fact |-> <<99>>] >>] >>

\* The strings of the recall tool.
\* "Error: Query is required and must be a string"
QueryRequired ==
  <<69, 114, 114, 111, 114, 58, 32, 81, 117, 101, 114, 121, 32, 105, 115, 32, 114, 101, 113, 117, 105, 114, 101, 100, 32, 97, 110, 100, 32, 109, 117, 115, 116, 32, 98, 101, 32, 97, 32, 115, 116, 114, 105, 110, 103>>

\* "Error: Query cannot be empty"
QueryEmpty ==
  <<69, 114, 114, 111, 114, 58, 32, 81, 117, 101, 114, 121, 32, 99, 97, 110, 110, 111, 116, 32, 98, 101, 32, 101, 109, 112, 116, 121>>

\* "Error: Query is too long ("
QueryTooLong ==
  <<69, 114, 114, 111, 114, 58, 32, 81, 117, 101, 114, 121, 32, 105, 115, 32, 116, 111, 111, 32, 108, 111, 110, 103, 32, 40>>

\* " characters, max 500)"
QueryTooLongEnd ==
  <<32, 99, 104, 97, 114, 97, 99, 116, 101, 114, 115, 44, 32, 109, 97, 120, 32, 53, 48, 48, 41>>

\* "Found "
FoundPrefix ==
  <<70, 111, 117, 110, 100, 32>>

\* " relevant memories:\n"
FoundEnd ==
  <<32, 114, 101, 108, 101, 118, 97, 110, 116, 32, 109, 101, 109, 111, 114, 105, 101, 115, 58, 10>>

\* "- "
Bullet ==
  <<45, 32>>

\* "Unknown"
UnknownFact ==
  <<85, 110, 107, 110, 111, 119, 110>>

\* "No relevant memories for this query."
NoMemories ==
  <<78, 111, 32, 114, 101, 108, 101, 118, 97, 110, 116, 32, 109, 101, 109, 111, 114, 105, 101, 115, 32, 102, 111, 114, 32, 116, 104, 105, 115, 32, 113, 117, 101, 114, 121, 46>>

\* "Failed to search memory: "
SearchFailedPrefix ==
  <<70, 97, 105, 108, 101, 100, 32, 116, 111, 32, 115, 101, 97, 114, 99, 104, 32, 109, 101, 109, 111, 114, 121, 58, 32>>

\* The query passes the validation.
QueryOk == [ok |-> TRUE, message |-> <<>>]

\* A validation that holds queries to the limit of the facts.
ValidateQueryFactLimit(query) ==
  IF ~query.isString \/ Len(query.chars) = 0
    THEN [ok |-> FALSE, message |-> QueryRequired]
  ELSE IF Len(Trim(query.chars)) = 0
    THEN [ok |-> FALSE, message |-> QueryEmpty]
  ELSE IF Len(Trim(query.chars)) > FACT_MAX
    THEN [ok |-> FALSE,
          message |-> QueryTooLong \o Digits(Len(Trim(query.chars))) \o QueryTooLongEnd]
  ELSE QueryOk

\* Lines 246-258: the validation of recall's argument.
\*   if (!args.query || typeof args.query !== 'string') return '...required...'
\*   const trimmedQuery = args.query.trim();
\*   if (trimmedQuery.length === 0) return '...empty'
\*   if (trimmedQuery.length > 500) return `...too long (${trimmedQuery.length} ...`
ValidateQuery(query) ==
  IF ~query.isString \/ Len(query.chars) = 0
    THEN [ok |-> FALSE, message |-> QueryRequired]
  ELSE IF Len(Trim(query.chars)) = 0
    THEN [ok |-> FALSE, message |-> QueryEmpty]
  ELSE IF Len(Trim(query.chars)) > QUERY_MAX
    THEN [ok |-> FALSE,
          message |-> QueryTooLong \o Digits(Len(Trim(query.chars))) \o QueryTooLongEnd]
  ELSE QueryOk

\* const edges = results?.edges ?? []
EdgesOf(results) ==
  IF results.present /\ results.hasEdges THEN results.edges ELSE <<>>

\* `- ${edge?.fact ?? 'Unknown'}`
EdgeLine(edge) ==
  Bullet \o (IF edge.present /\ edge.hasFact THEN edge.fact ELSE UnknownFact)

\* lines.join('\n')
RECURSIVE JoinLines(_)
JoinLines(lines) ==
  IF Len(lines) = 0 THEN <<>>
  ELSE IF Len(lines) = 1 THEN lines[1]
  ELSE lines[1] \o <<NL>> \o JoinLines(Tail(lines))

\* Lines 269-275: what recall returns for the results of the search.
FormatResults(results) ==
  LET edges == EdgesOf(results)
  IN IF Len(edges) > 0
       THEN FoundPrefix \o Digits(Len(edges)) \o FoundEnd
              \o JoinLines([k \in 1..Len(edges) |-> EdgeLine(edges[k])])
       ELSE NoMemories

\* --------------------------------------------------------------------- MD5
\* crypto.createHash('md5'), computed as RFC 1321 defines it.
\* 32-bit words are pairs <<high half, low half>> of 16-bit numbers.
HALF == 2 ^ 16

RECURSIVE And16(_, _)
And16(x, y) ==
  IF x = 0 \/ y = 0 THEN 0
  ELSE 2 * And16(x \div 2, y \div 2) + (IF x % 2 = 1 /\ y % 2 = 1 THEN 1 ELSE 0)

Or16(x, y) == x + y - And16(x, y)
Xor16(x, y) == x + y - 2 * And16(x, y)

And32(a, b) == <<And16(a[1], b[1]), And16(a[2], b[2])>>
Or32(a, b) == <<Or16(a[1], b[1]), Or16(a[2], b[2])>>
Xor32(a, b) == <<Xor16(a[1], b[1]), Xor16(a[2], b[2])>>
Not32(a) == <<HALF - 1 - a[1], HALF - 1 - a[2]>>

\* a + b modulo 2^32
Add32(a, b) ==
  LET lo == a[2] + b[2]
  IN <<(a[1] + b[1] + (lo \div HALF)) % HALF, lo % HALF>>

\* a rotated left by s bits, 0 <= s < 32
Rotl32(a, s) ==
  LET w == IF s >= 16 THEN <<a[2], a[1]>> ELSE a
      t == s % 16
  IN IF t = 0 THEN w
     ELSE << ((w[1] * (2 ^ t)) % HALF) + (w[2] \div (2 ^ (16 - t))),
             ((w[2] * (2 ^ t)) % HALF) + (w[1] \div (2 ^ (16 - t))) >>

\* floor(2^32 * abs(sin(i + 1))), i = 0..63
Md5K ==
  <<
     <<55146, 42104>>, <<59591, 46934>>, <<9248, 28891>>, <<49597, 52974>>,
     <<62844, 4015>>, <<18311, 50730>>, <<43056, 17939>>, <<64838, 38145>>,
     <<27008, 39128>>, <<35652, 63407>>, <<65535, 23473>>, <<35164, 55230>>,
     <<27536, 4386>>, <<64920, 29075>>, <<42617, 17294>>, <<18868, 2081>>,
     <<63006, 9570>>, <<49216, 45888>>, <<9822, 23121>>, <<59830, 51114>>,
     <<54831, 4189>>, <<580, 5203>>, <<55457, 59009>>, <<59347, 64456>>,
     <<8673, 52710>>, <<49975, 2006>>, <<62677, 3463>>, <<17754, 5357>>,
     <<43491, 59653>>, <<64751, 41976>>, <<26479, 729>>, <<36138, 19594>>,
     <<65530, 14658>>, <<34673, 63105>>, <<28061, 24866>>, <<64997, 14348>>,
     <<42174, 59972>>, <<19422, 53161>>, <<63163, 19296>>, <<48831, 48240>>,
     <<10395, 32454>>, <<60065, 10234>>, <<54511, 12421>>, <<1160, 7429>>,
     <<55764, 53305>>, <<59099, 39397>>, <<8098, 31992>>, <<50348, 22117>>,
     <<62505, 8772>>, <<17194, 65431>>, <<43924, 9127>>, <<64659, 41017>>,
     <<25947, 22979>>, <<36620, 52370>>, <<65519, 62589>>, <<34180, 24017>>,
     <<28584, 32335>>, <<65068, 59104>>, <<41729, 17172>>, <<19976, 4513>>,
     <<63315, 32386>>, <<48442, 62005>>, <<10967, 53947>>, <<60294, 54161>> >>

\* the per-round shift amounts
Md5S ==
  << 7, 12, 17, 22, 7, 12, 17, 22, 7, 12, 17, 22, 7, 12, 17, 22,
     5, 9, 14, 20, 5, 9, 14, 20, 5, 9, 14, 20, 5, 9, 14, 20,
     4, 11, 16, 23, 4, 11, 16, 23, 4, 11, 16, 23, 4, 11, 16, 23,
     6, 10, 15, 21, 6, 10, 15, 21, 6, 10, 15, 21, 6, 10, 15, 21 >>

\* A = 0x67452301, B = 0xefcdab89, C = 0x98badcfe, D = 0x10325476
Md5Init == << <<26437, 8961>>, <<61389, 43913>>, <<39098, 56574>>, <<4146, 21622>> >>

\* The message padded to a multiple of 64 bytes: 0x80, zeros, and the length
\* in bits as a 64-bit little-endian number.
Md5Pad(bytes) ==
  LET n == Len(bytes)
      zeros == (119 - (n % 64)) % 64
      bits == 8 * n
  IN bytes \o <<128>> \o [k \in 1..zeros |-> 0]
       \o [k \in 1..8 |-> IF k <= 4 THEN (bits \div (256 ^ (k - 1))) % 256 ELSE 0]

\* Word g (0..15) of block b (0-based) of the padded message, little-endian.
Md5Word(p, b, g) ==
  LET o == 64 * b + 4 * g
  IN <<p[o + 3] + 256 * p[o + 4], p[o + 1] + 256 * p[o + 2]>>

\* Steps i..63 of the compression of one block; st = <<A, B, C, D>>.
RECURSIVE Md5Steps(_, _, _, _)
Md5Steps(st, p, b, i) ==
  IF i = 64 \/ Len(st) # 4 THEN st   \* st is four words
  ELSE LET A == st[1]
           B == st[2]
           C == st[3]
           D == st[4]
           F == IF i < 16 THEN Or32(And32(B, C), And32(Not32(B), D))
                ELSE IF i < 32 THEN Or32(And32(D, B), And32(Not32(D), C))
                ELSE IF i < 48 THEN Xor32(Xor32(B, C), D)
                ELSE Xor32(C, Or32(B, Not32(D)))
           g == IF i < 16 THEN i
                ELSE IF i < 32 THEN (5 * i + 1) % 16
                ELSE IF i < 48 THEN (3 * i + 5) % 16
                ELSE (7 * i) % 16
           sum == Add32(Add32(Add32(F, A), Md5K[i + 1]), Md5Word(p, b, g))
       IN Md5Steps(<<D, Add32(B, Rotl32(sum, Md5S[i + 1])), B, C>>, p, b, i + 1)

RECURSIVE Md5Blocks(_, _, _)
Md5Blocks(st, p, b) ==
  IF 64 * b >= Len(p) THEN st
  ELSE LET r == Md5Steps(st, p, b, 0)
       IN Md5Blocks(<<Add32(st[1], r[1]), Add32(st[2], r[2]),
                      Add32(st[3], r[3]), Add32(st[4], r[4])>>, p, b + 1)

HexDigit(d) == IF d < 10 THEN 48 + d ELSE 87 + d
HexByte(x) == <<HexDigit(x \div 16), HexDigit(x % 16)>>
HexWord(w) ==
  HexByte(w[2] % 256) \o HexByte(w[2] \div 256)
    \o HexByte(w[1] % 256) \o HexByte(w[1] \div 256)

\* .update(bytes).digest('hex') : 32 lowercase hex digits.
Md5Hex(bytes) ==
  LET r == Md5Blocks(Md5Init, Md5Pad(bytes), 0)
  IN HexWord(r[1]) \o HexWord(r[2]) \o HexWord(r[3]) \o HexWord(r[4])

\* ---------------------------------------------------------------- identity
\* The values of ZEP_THREAD_ID in the environment of a plugin process: not
\* set, set to the empty string, set to an id.
ThreadIdTable ==
  << [set |-> FALSE, chars |-> <<>>],
     [set |-> TRUE,  chars |-> <<>>],
     \* "custom-thread-id"
     [set |-> TRUE,  chars |-> <<99, 117, 115, 116, 111, 109, 45, 116, 104, 114, 101, 97, 100, 45, 105, 100>>] >>

\* The values of ZEP_USER_ID: not set, "alice", "bob".
UserTable ==
  << [set |-> FALSE, chars |-> <<>>],
     [set |-> TRUE,  chars |-> <<97, 108, 105, 99, 101>>],
     [set |-> TRUE,  chars |-> <<98, 111, 98>>] >>

\* The directory the host passes to the plugin: none, the empty string,
\* "/Users/you/project-a", "/Users/you/project-b".
DirTable ==
  << [set |-> FALSE, chars |-> <<>>],
     [set |-> TRUE,  chars |-> <<>>],
     [set |-> TRUE,  chars |-> <<47, 85, 115, 101, 114, 115, 47, 121, 111, 117, 47, 112, 114, 111, 106, 101, 99, 116, 45, 97>>],
     [set |-> TRUE,  chars |-> <<47, 85, 115, 101, 114, 115, 47, 121, 111, 117, 47, 112, 114, 111, 106, 101, 99, 116, 45, 98>>] >>

\* A value that JavaScript takes for true in a condition: a string that is
\* there and is not empty.
Truthy(v) == v.set /\ Len(v.chars) > 0

\* "default-user"
DefaultUser == <<100, 101, 102, 97, 117, 108, 116, 45, 117, 115, 101, 114>>

\* "thread-"
ThreadPrefix == <<116, 104, 114, 101, 97, 100, 45>>

\* "-"
DashStr == <<45>>

\* crypto.createHash('md5').update(dir).digest('hex') for the directories of
\* DirTable (their characters are ASCII, one byte each).
DirDigest == [d \in DOMAIN DirTable |-> Md5Hex(DirTable[d].chars)]

\* A thread id made from the time of the start, as `thread-${Date.now()}`.
generateThreadIdByTime(dir, user) ==
  IF Truthy(ThreadIdTable[env.ZEP_THREAD_ID])
    THEN ThreadIdTable[env.ZEP_THREAD_ID].chars
  ELSE ThreadPrefix \o Digits(clock)

\* A thread id that leaves the user out, as `thread-${dirHash}`.
generateThreadIdNoUser(dir, user) ==
  IF Truthy(ThreadIdTable[env.ZEP_THREAD_ID])
    THEN ThreadIdTable[env.ZEP_THREAD_ID].chars
  ELSE IF ~Truthy(DirTable[dir]) THEN ThreadPrefix \o user
  ELSE ThreadPrefix \o Substring(DirDigest[dir], 0, 8)

\* A resolver that tests the directory before it looks at ZEP_THREAD_ID.
generateThreadIdDirFirst(dir, user) ==
  IF ~Truthy(DirTable[dir]) THEN ThreadPrefix \o user
  ELSE IF Truthy(ThreadIdTable[env.ZEP_THREAD_ID])
    THEN ThreadIdTable[env.ZEP_THREAD_ID].chars
  ELSE ThreadPrefix \o user \o DashStr \o Substring(DirDigest[dir], 0, 8)

\* const generateThreadId = (dir, user) => { ... } : dir is the index of the
\* directory in DirTable, user the characters of the user id.
generateThreadId(dir, user) ==
  IF Truthy(ThreadIdTable[env.ZEP_THREAD_ID])
    THEN ThreadIdTable[env.ZEP_THREAD_ID].chars
  ELSE IF ~Truthy(DirTable[dir]) THEN ThreadPrefix \o user
  ELSE ThreadPrefix \o user \o DashStr \o Substring(DirDigest[dir], 0, 8)

\* ------------------------------------------------------------ plugin start
\* The errors the store (or the network) answers a call with: error.status
\* and error.message, either of which may be missing.
StoreErrors ==
  << \* 409 "Conflict"
     [hasStatus |-> TRUE, status |-> 409, hasMessage |-> TRUE,
      message |-> <<67, 111, 110, 102, 108, 105, 99, 116>>],
     \* 400 "bad request: user already exists"
     [hasStatus |-> TRUE, status |-> 400, hasMessage |-> TRUE,
      message |-> <<98, 97, 100, 32, 114, 101, 113, 117, 101, 115, 116, 58, 32, 117, 115, 101, 114, 32, 97, 108, 114, 101, 97, 100, 121, 32, 101, 120, 105, 115, 116, 115>>],
     \* 500 "Internal Server Error"
     [hasStatus |-> TRUE, status |-> 500, hasMessage |-> TRUE,
      message |-> <<73, 110, 116, 101, 114, 110, 97, 108, 32, 83, 101, 114, 118, 101, 114, 32, 69, 114, 114, 111, 114>>],
     \* no status, "fetch failed"
     [hasStatus |-> FALSE, status |-> 0, hasMessage |-> TRUE,
      message |-> <<102, 101, 116, 99, 104, 32, 102, 97, 105, 108, 101, 100>>],
     \* neither status nor message
     [hasStatus |-> FALSE, status |-> 0, hasMessage |-> FALSE,
      message |-> <<>>] >>

\* The answers of the store to an ensure call: 0 is success; the conflict
\* errors are what it answers when the user or thread exists already; the
\* failure errors it may answer at any time.
ConflictErrors == {1, 2}
FailureErrors == {3, 4, 5}

EnsureAnswers(exists) ==
  (IF exists THEN ConflictErrors ELSE {0}) \cup FailureErrors

\* "already exists"
AlreadyExists == <<97, 108, 114, 101, 97, 100, 121, 32, 101, 120, 105, 115, 116, 115>>

\* String.prototype.includes
Includes(str, sub) ==
  \E k \in 0..(Len(str) - Len(sub)) : SubSeq(str, k + 1, k + Len(sub)) = sub

\* A catch handler that swallows every error.
IgnoredErrorAny(error) == TRUE

\* if (error.status === 409 || error.message?.includes('already exists'))
IgnoredError(error) ==
  \/ error.hasStatus /\ error.status = 409
  \/ error.hasMessage /\ Includes(error.message, AlreadyExists)

\* What an ensure call, with its catch handler, comes to for answer a:
\* "ok", "ignored" (the handler returns), or "thrown" (the handler rethrows).
EnsureOutcome(a) ==
  IF a = 0 THEN "ok"
  ELSE IF IgnoredError(StoreErrors[a]) THEN "ignored"
  ELSE "thrown"

\* ------------------------------------------------------------------ skills
\* The SKILL.md files the skills directory may hold.  readable: file.text()
\* succeeds; parsable: gray-matter parses the front matter; name and
\* description as the front matter gives them (hasName / hasDescription
\* FALSE: the key is missing or no string); content: the text after the
\* front matter; dir: the directory of the file.
ManifestTable ==
  << \* 1: "zep-memory", a description of exactly 20 characters,
     \*    content " use recall\n", in /p/skills/zep-memory
     [readable |-> TRUE, parsable |-> TRUE,
      hasName |-> TRUE, name |-> <<122, 101, 112, 45, 109, 101, 109, 111, 114, 121>>,
      hasDescription |-> TRUE, description |-> Pattern(DESCRIPTION_MIN, 1),
      content |-> <<32, 117, 115, 101, 32, 114, 101, 99, 97, 108, 108, 10>>,
      dir |-> <<47, 112, 47, 115, 107, 105, 108, 108, 115, 47, 122, 101, 112, 45, 109, 101, 109, 111, 114, 121>>],
     \* 2: "notes", a description of 19 characters, in /p/skills/notes
     [readable |-> TRUE, parsable |-> TRUE,
      hasName |-> TRUE, name |-> <<110, 111, 116, 101, 115>>,
      hasDescription |-> TRUE, description |-> Pattern(DESCRIPTION_MIN - 1, 2),
      content |-> <<116, 101, 120, 116>>,
      dir |-> <<47, 112, 47, 115, 107, 105, 108, 108, 115, 47, 110, 111, 116, 101, 115>>],
     \* 3: no name, in /p/skills/draft
     [readable |-> TRUE, parsable |-> TRUE,
      hasName |-> FALSE, name |-> <<>>,
      hasDescription |-> TRUE, description |-> Pattern(DESCRIPTION_MIN + 5, 3),
      content |-> <<116, 101, 120, 116>>,
      dir |-> <<47, 112, 47, 115, 107, 105, 108, 108, 115, 47, 100, 114, 97, 102, 116>>],
     \* 4: a file that cannot be read, in /p/skills/locked
     [readable |-> FALSE, parsable |-> FALSE,
      hasName |-> FALSE, name |-> <<>>,
      hasDescription |-> FALSE, description |-> <<>>,
      content |-> <<>>,
      dir |-> <<47, 112, 47, 115, 107, 105, 108, 108, 115, 47, 108, 111, 99, 107, 101, 100>>],
     \* 5: a front matter that does not parse, in /p/skills/broken
     [readable |-> TRUE, parsable |-> FALSE,
      hasName |-> FALSE, name |-> <<>>,
      hasDescription |-> FALSE, description |-> <<>>,
      content |-> <<>>,
      dir |-> <<47, 112, 47, 115, 107, 105, 108, 108, 115, 47, 98, 114, 111, 107, 101, 110>>],
     \* 6: "zep-memory" again, content "old copy", in /p/skills/copy
     [readable |-> TRUE, parsable |-> TRUE,
      hasName |-> TRUE, name |-> <<122, 101, 112, 45, 109, 101, 109, 111, 114, 121>>,
      hasDescription |-> TRUE, description |-> Pattern(DESCRIPTION_MIN + 10, 4),
      content |-> <<111, 108, 100, 32, 99, 111, 112, 121>>,
      dir |-> <<47, 112, 47, 115, 107, 105, 108, 108, 115, 47, 99, 111, 112, 121>>],
     \* 7: "notes", a description of 30 characters, content "take notes",
     \*    in /p/skills/b
     [readable |-> TRUE, parsable |-> TRUE,
      hasName |-> TRUE, name |-> <<110, 111, 116, 101, 115>>,
      hasDescription |-> TRUE, description |-> Pattern(DESCRIPTION_MIN + 10, 5),
      content |-> <<116, 97, 107, 101, 32, 110, 111, 116, 101, 115>>,
      dir |-> <<47, 112, 47, 115, 107, 105, 108, 108, 115, 47, 98>>] >>

\* A schema whose description may be of any length.
SkillFrontmatterSchemaLax(data) ==
  /\ data.hasName
  /\ data.hasDescription

\* SkillFrontmatterSchema.parse(data) succeeds: name is a string and
\* description a string of at least 20 characters.
SkillFrontmatterSchema(data) ==
  /\ data.hasName
  /\ data.hasDescription
  /\ Len(data.description) >= DESCRIPTION_MIN

\* loadBundledSkill(skillPath): the front matter and the trimmed content, or
\* null (ok FALSE) when reading, parsing or validating throws.
loadBundledSkill(m) ==
  LET file == ManifestTable[m]
  IN IF file.readable /\ file.parsable /\ SkillFrontmatterSchema(file)
       THEN [ok |-> TRUE, name |-> file.name,
             description |-> file.description,
             content |-> Trim(file.content)]
       ELSE [ok |-> FALSE, name |-> <<>>, description |-> <<>>,
             content |-> <<>>]

\* A loop that a skill which fails to load ends.
RECURSIVE LoadSkillsUntilFailure(_, _, _)
LoadSkillsUntilFailure(skillPaths, i, acc) ==
  IF i > Len(skillPaths) THEN acc
  ELSE LET skill == loadBundledSkill(skillPaths[i])
       IN IF skill.ok
            THEN LoadSkillsUntilFailure(skillPaths, i + 1,
                   [acc EXCEPT !.skills = Append(@,
                      [name |-> skill.name, description |-> skill.description,
                       content |-> skill.content, path |-> skillPaths[i],
                       basePath |-> ManifestTable[skillPaths[i]].dir])])
            ELSE [acc EXCEPT !.warned = Append(@, skillPaths[i])]

\* for (const skillPath of skillPaths) { ... }: the skills loaded, in the
\* order of the paths, each with its path and base path, and the paths a
\* warning was given for.
RECURSIVE LoadSkills(_, _, _)
LoadSkills(skillPaths, i, acc) ==
  IF i > Len(skillPaths) THEN acc
  ELSE LET skill == loadBundledSkill(skillPaths[i])
       IN IF skill.ok
            THEN LoadSkills(skillPaths, i + 1,
                   [acc EXCEPT !.skills = Append(@,
                      [name |-> skill.name, description |-> skill.description,
                       content |-> skill.content, path |-> skillPaths[i],
                       basePath |-> ManifestTable[skillPaths[i]].dir])])
            ELSE LoadSkills(skillPaths, i + 1,
                   [acc EXCEPT !.warned = Append(@, skillPaths[i])])

\* The names of the tools: "remember", "recall", and for a skill
\* `skills_${name.replace(/-/g, '_')}`.
RememberName == <<114, 101, 109, 101, 109, 98, 101, 114>>
RecallName == <<114, 101, 99, 97, 108, 108>>
SkillsPrefix == <<115, 107, 105, 108, 108, 115, 95>>
Dash == 45
Underscore == 95

ToolName(name) ==
  SkillsPrefix \o [k \in 1..Len(name) |->
                     IF name[k] = Dash THEN Underscore ELSE name[k]]

\* tools[toolName] = value
SetTool(tools, toolName, value) ==
  [t \in DOMAIN tools \cup {toolName} |->
     IF t = toolName THEN value ELSE tools[t]]

\* The tools object as line 201 builds it.
BaseTools ==
  [t \in {RememberName, RecallName} |->
     [kind |-> IF t = RememberName THEN "remember" ELSE "recall", skill |-> 0]]

\* for (const skill of skills) { tools[toolName] = tool({...}) }: the tool
\* of a skill holds the skill (its index in skills) in its closure.
RECURSIVE RegisterSkills(_, _, _)
RegisterSkills(skills, k, tools) ==
  IF k > Len(skills) THEN tools
  ELSE RegisterSkills(skills, k + 1,
         SetTool(tools, ToolName(skills[k].name),
                 [kind |-> "skill", skill |-> k]))

\* The strings of a skill's tool.
\* "The ""
HeaderStart ==
  <<84, 104, 101, 32, 34>>

\* "" skill is loading\n"
HeaderEnd ==
  <<34, 32, 115, 107, 105, 108, 108, 32, 105, 115, 32, 108, 111, 97, 100, 105, 110, 103, 10>>

\* "Base directory for this skill: "
BaseDirectory ==
  <<66, 97, 115, 101, 32, 100, 105, 114, 101, 99, 116, 111, 114, 121, 32, 102, 111, 114, 32, 116, 104, 105, 115, 32, 115, 107, 105, 108, 108, 58, 32>>

\* "Launching skill: "
Launching ==
  <<76, 97, 117, 110, 99, 104, 105, 110, 103, 32, 115, 107, 105, 108, 108, 58, 32>>

\* "Error loading skill: "
ErrorLoading ==
  <<69, 114, 114, 111, 114, 32, 108, 111, 97, 100, 105, 110, 103, 32, 115, 107, 105, 108, 108, 58, 32>>

\* "Unknown error"
UnknownErrorText ==
  <<85, 110, 107, 110, 111, 119, 110, 32, 101, 114, 114, 111, 114>>

\* `The "${name}" skill is loading\n${name}`
SkillHeader(skill) == HeaderStart \o skill.name \o HeaderEnd \o skill.name

\* `Base directory for this skill: ${basePath}\n\n${content}`
SkillBody(skill) == BaseDirectory \o skill.basePath \o <<NL, NL>> \o skill.content

\* A tool that sends the content before the header.
SkillMessagesBodyFirst(skill) == <<SkillBody(skill), SkillHeader(skill)>>

\* Lines 304-312: the texts execute sends, in the order it sends them,
\* each awaited before the next.
SkillMessages(skill) == <<SkillHeader(skill), SkillBody(skill)>>

\* client.session.prompt({ path: { id }, body: { noReply: true,
\* parts: [{ type: 'text', text }] } })
sendSilentPrompt(sessionID, txt) ==
  [id |-> sessionID, noReply |-> TRUE, parts |-> <<[type |-> "text", text |-> txt]>>]

\* The errors client.session.prompt rejects with: "session not found", an
\* empty message, no message.
PromptErrors ==
  << [hasMessage |-> TRUE,
      message |-> <<115, 101, 115, 115, 105, 111, 110, 32, 110, 111, 116, 32, 102, 111, 117, 110, 100>>],
     [hasMessage |-> TRUE, message |-> <<>>],
     [hasMessage |-> FALSE, message |-> <<>>] >>

\* `Error loading skill: ${error.message || 'Unknown error'}`
SkillFailure(error) ==
  ErrorLoading \o (IF error.hasMessage /\ Len(error.message) > 0
                     THEN error.message ELSE UnknownErrorText)

\* A tool without the try block: the error of the host leaves execute.
SkillRethrows == "thrown"

\* A catch block that takes the call up again where it failed.
SkillResumes == "awaiting"

\* try { ... } catch (error: any) { console.error(...); return `Error
\* loading skill: ...` }: execute returns.
SkillCatch == "returned"

\* ------------------------------------------------------- the tools' errors
\* const errorType = error.status ? `API Error ${error.status}` : 'Unknown Error'
ErrorType(error) ==
  IF error.hasStatus /\ error.status # 0
    THEN ApiError \o Digits(error.status) ELSE UnknownError

\* `${error.message}`
ErrorMessage(error) == IF error.hasMessage THEN error.message ELSE Undefined

\* `${prefix}${errorType} - ${error.message}. Check ZEP_API_KEY and network
\* connection.`
StoreFailure(prefix, error) ==
  prefix \o ErrorType(error) \o DashSep \o ErrorMessage(error) \o CheckKeyHint

\* A remember without the try block: the error of the store leaves execute.
RememberRethrows == "thrown"

\* try { const results = await zep.graph.search(...) ... } catch (error:
\* any) { return `Failed to search memory: ...` }: execute returns.
RecallCatch == "returned"

\* try { await zep.thread.addMessages(...) ... } catch (error: any) {
\* return `Failed to store memory: ...` }: execute returns.
RememberCatch == "returned"

\* ------------------------------------------------------------------ actions
\* The environment of a process: for each variable its index in the table
\* of its values.
NoEnv == [ZEP_API_KEY |-> FALSE, ZEP_THREAD_ID |-> 1, ZEP_USER_ID |-> 1]

\* No plugin process has been launched.
NoStart ==
  /\ env = NoEnv
  /\ directory = 1
  /\ clock = 0
  /\ launch = "none"
  /\ plugins = <<>>
  /\ zepStore = [users |-> {}, threads |-> {}]

\* ------------------------------------------------------- the setup tool
\* A config object is what JSON.parse gives for opencode.json, of the type
\* OpenCodeConfig (utils.ts 183-188): schema is $schema ("" when the key is
\* missing); hasPlugin / hasAgent / hasPermission tell whether the key is
\* there; plugin is the list, agent the object (a function from the agent
\* names to the agent configs), permission the permission block.
PluginName == "opencode-withvibes"
SchemaUrl == "https://opencode.ai/config.json"

TemplateNames == {"fullstack", "designer", "docs", "tester", "memory-expert"}

\* getAgentTemplates(): the five agents; an agent config is told apart by
\* where it comes from and carries its mode.
getAgentTemplates ==
  [n \in TemplateNames |->
     [origin |-> "template",
      mode |-> IF n \in {"tester", "memory-expert"} THEN "subagent" ELSE "primary"]]

\* existing.permission = { bash: 'allow', edit: 'allow', webfetch: 'allow' }
DefaultPermission == [bash |-> "allow", edit |-> "allow", webfetch |-> "allow"]

\* An agent and a permission block the user wrote.
UserAgent == [origin |-> "user", mode |-> "primary"]
UserPermission == [bash |-> "ask", edit |-> "allow", webfetch |-> "deny"]

NoAgents == [n \in {} |-> UserAgent]

\* The existing configs: with or without each key, the plugin list with or
\* without the plugin and with another one, the user's agents under names
\* of the templates and under a name of their own.
UserAgentNames == {"fullstack", "tester", "reviewer"}

ExistingConfigs ==
  [ schema : {"", "https://example.com/own.json"},
    hasPlugin : {TRUE},
    plugin : {<<>>, <<"other">>, <<PluginName>>, <<"other", PluginName>>},
    hasAgent : {TRUE},
    agent : UNION { [names -> {UserAgent}] : names \in SUBSET UserAgentNames },
    hasPermission : BOOLEAN,
    permission : {UserPermission} ]
  \cup
  [ schema : {"", "https://example.com/own.json"},
    hasPlugin : {FALSE},
    plugin : {<<>>},
    hasAgent : BOOLEAN,
    agent : {NoAgents},
    hasPermission : BOOLEAN,
    permission : {UserPermission} ]

\* if (!config.$schema) config.$schema = 'https://opencode.ai/config.json'
ensureSchema(config) ==
  IF config.schema = "" THEN [config EXCEPT !.schema = SchemaUrl] ELSE config

\* Array.prototype.includes
ListIncludes(list, item) == \E k \in DOMAIN list : list[k] = item

\* The loop of step 3 over the entries of the template.
MergeAgents(agent, template, overwrite) ==
  [n \in DOMAIN agent \cup DOMAIN template |->
     IF n \notin DOMAIN template THEN agent[n]
     ELSE IF n \in DOMAIN agent
       THEN (IF overwrite THEN template[n] ELSE agent[n])
       ELSE template[n]]

\* A merge that replaces the agents of the template names in either mode.
mergeConfigAlwaysReplaces(existing, template, options) ==
  LET plugin == IF existing.hasPlugin THEN existing.plugin ELSE <<>>
      withPlugin == IF ListIncludes(plugin, PluginName) THEN plugin
                    ELSE Append(plugin, PluginName)
      agent == IF existing.hasAgent THEN existing.agent ELSE NoAgents
  IN ensureSchema(
       [existing EXCEPT
          !.hasPlugin = TRUE, !.plugin = withPlugin,
          !.hasAgent = TRUE, !.agent = MergeAgents(agent, template, TRUE),
          !.hasPermission = TRUE,
          !.permission = IF existing.hasPermission THEN existing.permission
                         ELSE DefaultPermission])

\* mergeConfig(existing, template, options), utils.ts 302-349: the plugin
\* list is made if missing and the plugin pushed if the list has it not;
\* the agent object is made if missing; each agent of the template is
\* added, or replaces the existing one if options.overwrite, or is skipped;
\* the permission block is added if missing; the schema is ensured.
mergeConfig(existing, template, options) ==
  LET plugin == IF existing.hasPlugin THEN existing.plugin ELSE <<>>
      withPlugin == IF ListIncludes(plugin, PluginName) THEN plugin
                    ELSE Append(plugin, PluginName)
      agent == IF existing.hasAgent THEN existing.agent ELSE NoAgents
  IN ensureSchema(
       [existing EXCEPT
          !.hasPlugin = TRUE, !.plugin = withPlugin,
          !.hasAgent = TRUE,
          !.agent = MergeAgents(agent, template, options.overwrite),
          !.hasPermission = TRUE,
          !.permission = IF existing.hasPermission THEN existing.permission
                         ELSE DefaultPermission])

\* No merge has been made.
NoMerge ==
  LET none == [schema |-> "", hasPlugin |-> FALSE, plugin |-> <<>>,
               hasAgent |-> FALSE, agent |-> NoAgents,
               hasPermission |-> FALSE, permission |-> UserPermission]
  IN [original |-> none, config |-> none, options |-> <<>>]

\* The paths of the project directory, as strings.
\* "opencode.json"
ConfigPath ==
  <<111, 112, 101, 110, 99, 111, 100, 101, 46, 106, 115, 111, 110>>

\* "notes.md"
NotesPath ==
  <<110, 111, 116, 101, 115, 46, 109, 100>>

\* ".tmp"
TmpSuffix ==
  <<46, 116, 109, 112>>

\* ".json"
JsonSuffix ==
  <<46, 106, 115, 111, 110>>

\* ".backup."
BackupInfix ==
  <<46, 98, 97, 99, 107, 117, 112, 46>>

\* "2025-10-29T14-30-45"
Stamp ==
  <<50, 48, 50, 53, 45, 49, 48, 45, 50, 57, 84, 49, 52, 45, 51, 48, 45, 52, 53>>

\* "prompts"
PromptsDir ==
  <<112, 114, 111, 109, 112, 116, 115>>

\* "/"
Slash ==
  <<47>>

\* "fullstack.md"
FullstackMd ==
  <<102, 117, 108, 108, 115, 116, 97, 99, 107, 46, 109, 100>>

\* "designer.md"
DesignerMd ==
  <<100, 101, 115, 105, 103, 110, 101, 114, 46, 109, 100>>

\* "docs.md"
DocsMd ==
  <<100, 111, 99, 115, 46, 109, 100>>

\* "tester.md"
TesterMd ==
  <<116, 101, 115, 116, 101, 114, 46, 109, 100>>

\* "memory-expert.md"
MemoryExpertMd ==
  <<109, 101, 109, 111, 114, 121, 45, 101, 120, 112, 101, 114, 116, 46, 109, 100>>


\* const tempPath = `${filePath}.tmp`
TempPath(filePath) == filePath \o TmpSuffix

\* String.prototype.endsWith
EndsWith(str, suffix) ==
  /\ Len(str) >= Len(suffix)
  /\ SubSeq(str, Len(str) - Len(suffix) + 1, Len(str)) = suffix

\* The string begins with the prefix.
StartsWith(str, prefix) ==
  Len(str) >= Len(prefix) /\ SubSeq(str, 1, Len(prefix)) = prefix

\* const backupPath = `${filePath}.backup.${timestamp}`
BackupPath(filePath) == filePath \o BackupInfix \o Stamp

\* const REQUIRED_PROMPTS = [...], setup-prompts.ts
REQUIRED_PROMPTS == <<FullstackMd, DesignerMd, DocsMd, TesterMd, MemoryExpertMd>>

\* path.join(userPromptsDir, promptFile)
PromptPath(promptFile) == PromptsDir \o Slash \o promptFile

AllPaths ==
  {ConfigPath, NotesPath, TempPath(ConfigPath), TempPath(NotesPath),
   BackupPath(ConfigPath), PromptsDir}
    \cup { PromptPath(REQUIRED_PROMPTS[k]) : k \in DOMAIN REQUIRED_PROMPTS }

\* The content of a file: exists (existsSync), json (JSON.parse takes the
\* text), text (which text it is), config (the object the text stands for,
\* for a config file).
Absent == [exists |-> FALSE, json |-> FALSE, text |-> "", config |-> NoMerge.config]

File(txt, isJson) ==
  [exists |-> TRUE, json |-> isJson, text |-> txt, config |-> NoMerge.config]

\* formatJson(config) written to a file.
ConfigFile(config) ==
  [exists |-> TRUE, json |-> TRUE, text |-> "config", config |-> config]

\* What atomicWrite is called with: a text that parses as JSON, one that
\* does not, another that does.
ContentTable ==
  << File("first", TRUE), File("broken", FALSE), File("second", TRUE) >>

\* What a failed fs.writeFile may leave at the path: a part of the text.
Partial == File("partial", FALSE)

NoDisk == [p \in AllPaths |-> Absent]

\* No atomicWrite call is under way.  pc: the await the call is at;
\* before: the destination when the call was made; error: what the call
\* threw; calls: the calls made.
NoWrite ==
  [pc |-> "idle", path |-> ConfigPath, content |-> Absent, before |-> Absent,
   error |-> "none", calls |-> 0, renamed |-> FALSE]

\* bin/setup.js has not been run.
\* pc: the await main is at; steps: the steps entered; userGet / userAdd:
\* what the store answered to the connection test; exitCode: -1 while the
\* process has not ended; error: the message main's catch printed; start:
\* the files when the run began.
NoSetup ==
  [pc |-> "off", flags |-> [overwrite |-> FALSE],
   env |-> [ZEP_API_KEY |-> 1, ZEP_USER_ID |-> 1],
   steps |-> <<>>, userGet |-> "none", userAdd |-> "none",
   exitCode |-> -1, error |-> "none", start |-> NoDisk]

NoCli ==
  /\ merged = NoMerge
  /\ disk = NoDisk
  /\ write = NoWrite
  /\ setup = NoSetup

\* The bundled skills directory holds the one skill the package ships
\* (skills/zep-memory/SKILL.md); no tool has been called.
NoTools ==
  /\ skillsDir = <<1>>
  /\ recalls = <<>>
  /\ invocations = <<>>
  /\ session = <<>>

\* The beforeExit handler has not run.
NoExit == [st |-> "none", count |-> 0, open |-> {}]

Init ==
  /\ asyncStorage \in BOOLEAN
  /\ outputs = <<>>
  /\ calls = <<>>
  /\ jobs = <<>>
  /\ waiting = <<>>
  /\ pending = 0
  /\ requests = {}
  /\ storeLog = <<>>
  /\ remembers = <<>>
  /\ exit = NoExit
  /\ unhandled = FALSE
  /\ text = <<>>
  /\ segments = <<>>
  /\ phase = "off"
  /\ NoStart
  /\ NoTools
  /\ NoCli

\* A hook that never awaits the job's promise.
AwaitsStorageNever(async) == FALSE

\* if (!asyncStorage) { await storagePromise; ... } else { ... }
AwaitsStorage(async) == ~async

\* A warning that is given from a backlog of BACKLOG_WARN on.
BacklogWarnedFrom(queueSize) == queueSize >= BACKLOG_WARN

\* if (queueSize > 10) console.warn(...)
BacklogWarned(queueSize) == queueSize > BACKLOG_WARN

\* 'chat.message': async (_input, output) => { ... } up to its first
\* suspension: the job is added to the queue (and started at once when the
\* queue is free), the queue's size is read, and the call either awaits the
\* job's promise or attaches the catch handler, warns about a backlog and
\* returns.  handled: a handler is attached to the job's promise (the await,
\* or .catch); writeOpen: the call's write was open when the call returned.
HookCall(o) ==
  /\ phase = "off"
  /\ LET c == Len(calls) + 1
         outs == Append(outputs, OutputTable[o])
         q == TryToStartAnother(Append(waiting, c), pending,
                                Append(jobs, QueuedJob), outs)
         reqs == requests \cup Issued(q.reqs)
         queueSize == Len(q.waiting)
     IN /\ outputs' = outs
        /\ jobs' = q.jobs
        /\ waiting' = q.waiting
        /\ pending' = q.pending
        /\ requests' = reqs
        /\ storeLog' = LogIssued(storeLog, q.reqs)
        /\ calls' = Append(calls,
             IF AwaitsStorage(asyncStorage)
               THEN [st |-> "awaiting", handled |-> TRUE,
                     warned |-> FALSE, writeOpen |-> FALSE]
               ELSE [st |-> "returned", handled |-> TRUE,
                     warned |-> BacklogWarned(queueSize),
                     writeOpen |-> WriteOpen(c, q.jobs, reqs)])
  /\ UNCHANGED <<asyncStorage, remembers, exit, unhandled, chunkVars, startVars, toolVars,
            cliVars>>

\* The host makes at most MaxCalls calls of the hook in one run.
ChatMessage(o) ==
  /\ Len(calls) < MaxCalls
  /\ HookCall(o)

\* PQueue's continuation after the job's function has returned or thrown:
\* the promise add() returned is settled, pending is decremented and the
\* next waiting job is started; an idle queue resolves onIdle().
JobFinish(j) ==
  /\ j \in DOMAIN jobs
  /\ jobs[j].st = "returned"
  /\ LET q == TryToStartAnother(waiting, pending - 1,
                                [jobs EXCEPT ![j].st = "settled"], outputs)
     IN /\ jobs' = q.jobs
        /\ waiting' = q.waiting
        /\ pending' = q.pending
        /\ requests' = requests \cup Issued(q.reqs)
        /\ storeLog' = LogIssued(storeLog, q.reqs)
        /\ exit' = IF exit.st = "flushing" /\ q.idle
                     THEN [exit EXCEPT !.st = "idle"] ELSE exit
  /\ unhandled' = (unhandled \/ (jobs[j].result = "rejected" /\ ~calls[j].handled))
  /\ UNCHANGED <<asyncStorage, outputs, calls, remembers, chunkVars, startVars, toolVars,
            cliVars>>

\* A hook that awaits a promise which resolves as soon as the job has been
\* taken from the waiting list (storageQueue.onEmpty() for the last job).
AwaitedPromiseSettledAtStart(job) == job.st # "queued"

\* The promise add() returned for the job is settled when the queue has
\* finished the job.
AwaitedPromiseSettled(job) == job.st = "settled"

\* await storagePromise resumes (blocking mode): the call returns to the
\* host, or rejects when the promise was rejected.
CallResume(c) ==
  /\ c \in DOMAIN calls
  /\ calls[c].st = "awaiting"
  /\ AwaitedPromiseSettled(jobs[c])
  /\ calls' = [calls EXCEPT
       ![c].st = IF jobs[c].result = "rejected" THEN "rejected" ELSE "returned",
       ![c].writeOpen = WriteOpen(c, jobs, requests)]
  /\ UNCHANGED <<asyncStorage, outputs, jobs, waiting, pending, requests,
                 storeLog, remembers, exit, unhandled, chunkVars, startVars, toolVars,
                 cliVars>>

\* The store answers request r: with success (a = 0) or with error a of
\* StoreErrors.  An awaited request of a job resumes the job's function; a
\* request of remember resumes the tool call; a rejected request nobody
\* awaits is an unhandled rejection.
StoreReply(r, a) ==
  /\ r \in requests
  /\ r.by \in {"job", "remember"}
  /\ LET ok == a = 0
         log == IF r.by = "job"
                  THEN Append(storeLog, [ev |-> IF ok THEN "ok" ELSE "fail", req |-> r])
                  ELSE storeLog
         resumed == r.by = "job" /\ r.awaited
         res == IF resumed THEN ResumeJob(r.n, jobs[r.n], ok)
                ELSE [job |-> QueuedJob, reqs |-> <<>>]
     IN /\ jobs' = IF resumed THEN [jobs EXCEPT ![r.n] = res.job] ELSE jobs
        /\ requests' = (requests \ {r}) \cup Issued(res.reqs)
        /\ storeLog' = LogIssued(log, res.reqs)
        /\ unhandled' = (unhandled \/ (r.by = "job" /\ ~r.awaited /\ ~ok))
        /\ remembers' =
             IF r.by = "remember"
               THEN [remembers EXCEPT
                       ![r.n].st = IF ok THEN "returned" ELSE RememberCatch,
                       ![r.n].result =
                          IF ok THEN RememberedPrefix \o Trim(FactTable[r.texts[1]].chars)
                          ELSE StoreFailure(StoreFailedPrefix, StoreErrors[a])]
               ELSE remembers
  /\ UNCHANGED <<asyncStorage, outputs, calls, waiting, pending, exit,
                 chunkVars, startVars, toolVars, cliVars>>

\* The store answers request r: ok, or with an error (500).
StoreAnswer(r, ok) == StoreReply(r, IF ok THEN 0 ELSE 3)

\* remember.execute(args): validation, then thread.addMessages sent straight
\* to the store ("[MEMORY] " + the trimmed fact) and awaited.  In the
\* request of a remember call, texts names the fact (its index in
\* FactTable); storeCalls counts the calls the tool call made to the store.
Remember(f) ==
  /\ phase = "off"
  /\ Len(remembers) < MaxRemember
  /\ LET r == Len(remembers) + 1
         fact == FactTable[f]
         verdict == ValidateFact(fact)
         req == [by |-> "remember", n |-> r,
                 op |-> "thread.addMessages", seg |-> 0, role |-> "user",
                 texts |-> <<f>>,
                 len |-> Len(MemoryPrefix \o Trim(fact.chars)),
                 awaited |-> TRUE]
     IN IF verdict.ok
          THEN /\ remembers' = Append(remembers,
                     [fact |-> f, st |-> "awaiting", result |-> <<>>,
                      storeCalls |-> 1])
               /\ requests' = requests \cup {req}
          ELSE /\ remembers' = Append(remembers,
                     [fact |-> f, st |-> "returned", result |-> verdict.message,
                      storeCalls |-> 0])
               /\ UNCHANGED requests
  /\ UNCHANGED <<asyncStorage, queueVars, storeLog, exit, unhandled, chunkVars, startVars, toolVars,
            cliVars>>

\* recall.execute(args): validation, then zep.graph.search sent to the store
\* and awaited.  searches: the searches the tool call has sent, each with
\* the query (the trimmed text), the limit and the scope.
Recall(q) ==
  /\ phase = "off"
  /\ LET query == QueryTable[q]
         verdict == ValidateQuery(query)
     IN recalls' = Append(recalls,
          IF verdict.ok
            THEN [query |-> q, st |-> "awaiting", result |-> <<>>,
                  searches |-> << [query |-> Trim(query.chars),
                                   limit |-> SEARCH_LIMIT, scope |-> "edges"] >>]
            ELSE [query |-> q, st |-> "returned", result |-> verdict.message,
                  searches |-> <<>>])
  /\ UNCHANGED <<skillsDir, invocations, session, pipelineVars, chunkVars, startVars,
            cliVars>>

\* The store answers the search of recall call r: with error a of
\* StoreErrors, or (a = 0) with the results res.
SearchAnswer(r, a, res) ==
  /\ r \in DOMAIN recalls
  /\ recalls[r].st = "awaiting"
  /\ recalls' = [recalls EXCEPT
       ![r].st = IF a = 0 THEN "returned" ELSE RecallCatch,
       ![r].result = IF a = 0 THEN FormatResults(SearchResults[res])
                     ELSE StoreFailure(SearchFailedPrefix, StoreErrors[a])]
  /\ UNCHANGED <<skillsDir, invocations, session, pipelineVars, chunkVars, startVars,
            cliVars>>

\* A handler that calls onIdle() without awaiting it.
FlushSkipsIdle == FALSE

\* await storageQueue.onIdle() in the beforeExit handler.
FlushAwaitsIdle == TRUE

\* process.on('beforeExit', async () => { ... }) up to its suspension:
\* with nothing queued or running the handler is done at once; otherwise
\* it announces the flush and awaits the queue's idle event.  The event is
\* emitted again only after the handler's previous run has ended.
BeforeExit ==
  /\ phase = "off"
  /\ exit.st \in {"none", "nothing", "flushed"}
  /\ LET n == Len(waiting) + pending
         open == {j \in DOMAIN jobs : jobs[j].st # "settled"}
     IN exit' = [st |-> IF n = 0 THEN "nothing"
                        ELSE IF FlushAwaitsIdle THEN "flushing" ELSE "flushed",
                 count |-> n, open |-> open]
  /\ UNCHANGED <<asyncStorage, queueVars, requests, storeLog, remembers,
                 unhandled, chunkVars, startVars, toolVars, cliVars>>

\* The handler resumes after onIdle() resolved and reports the flush done
\* ("All messages flushed successfully").
ExitResume ==
  /\ exit.st = "idle"
  /\ exit' = [exit EXCEPT !.st = "flushed"]
  /\ UNCHANGED <<asyncStorage, queueVars, requests, storeLog, remembers,
                 unhandled, chunkVars, startVars, toolVars, cliVars>>

\* The host starts a process with an environment and a directory; the time
\* moves on.
Launch(key, t, u, d) ==
  /\ launch = "none"
  /\ Len(plugins) < MaxStarts
  /\ env' = [ZEP_API_KEY |-> key, ZEP_THREAD_ID |-> t, ZEP_USER_ID |-> u]
  /\ directory' = d
  /\ clock' = clock + 1
  /\ launch' = "launched"
  /\ UNCHANGED <<plugins, zepStore, pipelineVars, chunkVars, toolVars, cliVars>>

\* A plugin that goes on without an API key.
DisabledNever(apiKey) == FALSE

\* if (!apiKey) { console.warn(...); return {}; }
Disabled(apiKey) == ~apiKey

\* An object without properties: the hooks object {} and the tools of a
\* plugin that has registered none.
NoTool == [t \in {} |-> [kind |-> "none", skill |-> 0]]

\* WithvibesPlugin({ directory, client }) up to its first suspension: the
\* user id and the thread id are fixed; without an API key the plugin
\* returns {}, an object without hooks; otherwise zep.user.add is called
\* and awaited.
\* userAnswer / threadAnswer: the store's answer to the ensure call (-1:
\* none yet); userAdd / threadCreate: what the call came to; returned: the
\* plugin function has returned to the host; hooks: the keys of the object
\* it returned; tools: the tools object; skills, warned: what the discovery
\* loaded and what it warned about.
PluginLoad ==
  /\ launch = "launched"
  /\ LET userId == IF Truthy(UserTable[env.ZEP_USER_ID])
                     THEN UserTable[env.ZEP_USER_ID].chars ELSE DefaultUser
         threadId == generateThreadId(directory, userId)
         off == Disabled(env.ZEP_API_KEY)
     IN plugins' = Append(plugins,
          [env |-> env, directory |-> directory, at |-> clock,
           userId |-> userId, threadId |-> threadId,
           pc |-> IF off THEN "disabled" ELSE "user.add",
           userAdd |-> IF off THEN "not called" ELSE "pending",
           userAnswer |-> -1,
           threadCreate |-> "not called", threadAnswer |-> -1,
           critical |-> FALSE,
           returned |-> off, hooks |-> {}, tools |-> NoTool,
           skills |-> <<>>, warned |-> <<>>])
  /\ launch' = "none"
  /\ UNCHANGED <<env, directory, clock, zepStore, pipelineVars, chunkVars, toolVars,
            cliVars>>

\* A start that lets the error of an ensure call out of the plugin function.
SetupRethrows == "failed"

\* catch (error) { console.error(...); console.error(...) } at lines 144-147:
\* the start goes on after the try block.
SetupCatch == "ready"

\* The store answers the ensure call plugin p awaits, and the plugin goes
\* on: after user.add (with its catch handler) to thread.create, after
\* thread.create to the rest of its start; an error a handler rethrows is
\* caught at line 144, logged as critical, and the start goes on ("ready").
EnsureAnswer(p, a) ==
  /\ p \in DOMAIN plugins
  /\ plugins[p].pc \in {"user.add", "thread.create"}
  /\ LET pl == plugins[p]
         isUser == pl.pc = "user.add"
         exists == IF isUser THEN pl.userId \in zepStore.users
                   ELSE pl.threadId \in zepStore.threads
         outcome == EnsureOutcome(a)
     IN /\ a \in EnsureAnswers(exists)
        /\ zepStore' =
             IF a # 0 THEN zepStore
             ELSE IF isUser
               THEN [zepStore EXCEPT !.users = @ \cup {pl.userId}]
               ELSE [zepStore EXCEPT !.threads = @ \cup {pl.threadId}]
        /\ plugins' = [plugins EXCEPT ![p] =
             IF isUser
               THEN [pl EXCEPT
                       !.userAnswer = a, !.userAdd = outcome,
                       !.critical = (outcome = "thrown"),
                       !.threadCreate = IF outcome = "thrown"
                                          THEN "not called" ELSE "pending",
                       !.pc = IF outcome = "thrown"
                                THEN SetupCatch ELSE "thread.create"]
               ELSE [pl EXCEPT
                       !.threadAnswer = a, !.threadCreate = outcome,
                       !.critical = (outcome = "thrown"),
                       !.pc = IF outcome = "thrown"
                                THEN SetupCatch ELSE "ready"]]
  /\ UNCHANGED <<env, directory, clock, launch, pipelineVars, chunkVars, toolVars,
            cliVars>>

\* Lines 160-410, after the ensure calls: the SKILL.md files are found and
\* loaded, the tools object is built, every loaded skill is registered as a
\* tool, and the plugin returns its hooks: chat.message and tool.
DiscoverSkills(p) ==
  /\ p \in DOMAIN plugins
  /\ plugins[p].pc = "ready"
  /\ LET loaded == LoadSkills(skillsDir, 1, [skills |-> <<>>, warned |-> <<>>])
     IN plugins' = [plugins EXCEPT ![p] =
          [@ EXCEPT !.pc = "loaded", !.returned = TRUE,
                    !.skills = loaded.skills, !.warned = loaded.warned,
                    !.tools = RegisterSkills(loaded.skills, 1, BaseTools),
                    !.hooks = {"chat.message", "tool"}]]
  /\ UNCHANGED <<env, directory, clock, launch, zepStore, pipelineVars,
                 chunkVars, toolVars, cliVars>>

\* The host calls a hook or a tool of a plugin only when the object the
\* plugin returned has it.
HasHook(p, hook) ==
  /\ p \in DOMAIN plugins
  /\ plugins[p].returned
  /\ hook \in plugins[p].hooks

HasTool(p, toolName) ==
  /\ HasHook(p, "tool")
  /\ toolName \in DOMAIN plugins[p].tools

\* An execute that empties the content of the skills once it has read them.
SkillFrameConsumes ==
  /\ plugins' = [p \in DOMAIN plugins |->
       LET skills == plugins[p].skills
       IN [plugins[p] EXCEPT !.skills =
             [k \in DOMAIN skills |-> [skills[k] EXCEPT !.content = <<>>]]]]
  /\ UNCHANGED <<skillsDir, recalls, pipelineVars, chunkVars,
                 env, directory, clock, launch, zepStore, cliVars>>

\* Lines 292-320: execute reads the skill of its closure and calls
\* client.session.prompt; it assigns nothing of the plugin: not the skills,
\* not the tools, not the storage queue.
SkillFrame ==
  UNCHANGED <<skillsDir, recalls, pipelineVars, chunkVars, startVars, cliVars>>

\* The host calls execute(_args, toolCtx) of the tool toolName of plugin p
\* in session sessionID: up to its first suspension, the await of the first
\* prompt.  skill: the skill in the tool's closure (its index in the
\* plugin's skills); pc: the number of the message whose prompt is awaited;
\* prompt: the request of that prompt; sent: the requests made so far;
\* error: the error a prompt was rejected with (0: none).
SkillInvoke(p, toolName, sessionID) ==
  /\ HasTool(p, toolName)
  /\ plugins[p].tools[toolName].kind = "skill"
  /\ LET k == plugins[p].tools[toolName].skill
         skill == plugins[p].skills[k]
         first == sendSilentPrompt(sessionID, SkillMessages(skill)[1])
     IN invocations' = Append(invocations,
          [plugin |-> p, tool |-> toolName, skill |-> k,
           sessionID |-> sessionID, pc |-> 1, st |-> "awaiting",
           prompt |-> first, sent |-> <<first>>, error |-> 0,
           result |-> <<>>])
  /\ session' = session
  /\ SkillFrame

\* The host answers the prompt invocation i awaits.  a = 0: the message is
\* in the conversation and the prompt resolves; execute sends the next
\* message, or after the last returns the confirmation.  Otherwise the
\* prompt rejects with error a of PromptErrors and the catch block ends the
\* call.  by: the invocation a message of the conversation came from.
PromptAnswer(i, a) ==
  /\ i \in DOMAIN invocations
  /\ invocations[i].st = "awaiting"
  /\ LET inv == invocations[i]
         skill == plugins[inv.plugin].skills[inv.skill]
         messages == SkillMessages(skill)
     IN IF a = 0
          THEN /\ session' = Append(session,
                    [by |-> i, id |-> inv.prompt.id,
                     noReply |-> inv.prompt.noReply,
                     text |-> inv.prompt.parts[1].text])
               /\ invocations' = [invocations EXCEPT ![i] =
                    IF inv.pc < Len(messages)
                      THEN LET next == sendSilentPrompt(inv.sessionID,
                                                        messages[inv.pc + 1])
                           IN [inv EXCEPT !.pc = inv.pc + 1, !.prompt = next,
                                          !.sent = Append(inv.sent, next)]
                      ELSE [inv EXCEPT !.st = "returned",
                                       !.result = Launching \o skill.name]]
          ELSE /\ session' = session
               /\ invocations' = [invocations EXCEPT ![i] =
                    [inv EXCEPT !.st = SkillCatch, !.error = a,
                                !.result = SkillFailure(PromptErrors[a])]]
  /\ SkillFrame

\* The inputs the host draws for chat.message and the agent for remember.
MainOutputs == {1, 2, 4}
AllOutputs == 1..7
MainFacts == {3, 4}

\* The ingestion pipeline: the hook, the queue and the store.
Next ==
  \/ \E o \in MainOutputs : ChatMessage(o)
  \/ \E j \in DOMAIN jobs : JobFinish(j)
  \/ \E c \in DOMAIN calls : CallResume(c)
  \/ \E r \in requests : \E ok \in BOOLEAN : StoreAnswer(r, ok)

Spec == Init /\ [][Next]_vars

\* The ingestion pipeline under the scheduling of the event loop: a
\* continuation of the queue that is ready to run, after a job has returned,
\* is run, and the store answers every request, with success or with an
\* error.
Fairness ==
  /\ WF_vars(\E j \in DOMAIN jobs : JobFinish(j))
  /\ WF_vars(\E r \in requests : \E ok \in BOOLEAN : StoreAnswer(r, ok))

\* The pipeline of the fair runs: one call fewer than in the other runs.
NextLive ==
  \/ \E o \in MainOutputs : Len(calls) < MaxCalls - 1 /\ ChatMessage(o)
  \/ \E j \in DOMAIN jobs : JobFinish(j)
  \/ \E c \in DOMAIN calls : CallResume(c)
  \/ \E r \in requests : \E ok \in BOOLEAN : StoreAnswer(r, ok)

SpecLive == Init /\ [][NextLive]_vars /\ Fairness

\* The ingestion pipeline fed with every output of the table, one call
\* fewer than in the other runs.
NextRoute ==
  \/ \E o \in AllOutputs : Len(calls) < MaxCalls - 1 /\ ChatMessage(o)
  \/ \E j \in DOMAIN jobs : JobFinish(j)
  \/ \E c \in DOMAIN calls : CallResume(c)
  \/ \E r \in requests : \E ok \in BOOLEAN : StoreAnswer(r, ok)

SpecRoute == Init /\ [][NextRoute]_vars

\* The ingestion pipeline and the beforeExit handler, fed with short
\* messages and, among them, one message that is cut into segments.
NextExit ==
  \/ \E o \in {1, 4} :
       /\ o = 4 => \A c \in DOMAIN outputs : outputs[c] # OutputTable[4]
       /\ ChatMessage(o)
  \/ \E j \in DOMAIN jobs : JobFinish(j)
  \/ \E c \in DOMAIN calls : CallResume(c)
  \/ \E r \in requests : \E ok \in BOOLEAN : StoreAnswer(r, ok)
  \/ BeforeExit
  \/ ExitResume

SpecExit == Init /\ [][NextExit]_vars

\* The ingestion pipeline and the remember tool.
NextTools ==
  \/ Next
  \/ \E f \in MainFacts : Remember(f)

SpecTools == Init /\ [][NextTools]_vars

\* The ingestion pipeline under a burst of short messages that the store
\* is slow to accept: up to MaxBacklog calls.  (A store call that fails
\* frees the queue the way one that succeeds does; the bursts are run
\* against a store that accepts.)
NextBacklog ==
  \/ Len(calls) < MaxBacklog /\ HookCall(1)
  \/ \E j \in DOMAIN jobs : JobFinish(j)
  \/ \E c \in DOMAIN calls : CallResume(c)
  \/ \E r \in requests : StoreAnswer(r, TRUE)

SpecBacklog == Init /\ [][NextBacklog]_vars

\* ------------------------------------------------------------ plugin starts
\* The plugin is not loaded: nothing of its state has been touched.
NoPlugin ==
  /\ asyncStorage = TRUE
  /\ outputs = <<>>
  /\ calls = <<>>
  /\ jobs = <<>>
  /\ waiting = <<>>
  /\ pending = 0
  /\ requests = {}
  /\ storeLog = <<>>
  /\ remembers = <<>>
  /\ exit = NoExit
  /\ unhandled = FALSE
  /\ text = <<>>
  /\ segments = <<>>
  /\ phase = "off"
  /\ NoStart
  /\ NoTools

InitStart == NoPlugin /\ NoCli

\* Plugin starts under every combination of ZEP_THREAD_ID, ZEP_USER_ID and
\* directory, up to the resolution of the thread id.
NextIdentity ==
  \/ \E t \in DOMAIN ThreadIdTable : \E u \in DOMAIN UserTable :
       \E d \in DOMAIN DirTable : Launch(TRUE, t, u, d)
  \/ PluginLoad

SpecIdentity == InitStart /\ [][NextIdentity]_vars

\* Plugin starts of alice and bob in one project, with and without an API
\* key, and the store's answers to their ensure calls.
NextSetup ==
  \/ \E key \in BOOLEAN : \E u \in {2, 3} : Launch(key, 1, u, 3)
  \/ PluginLoad
  \/ \E p \in DOMAIN plugins : \E a \in 0..Len(StoreErrors) : EnsureAnswer(p, a)

SpecSetup == InitStart /\ [][NextSetup]_vars

\* One plugin process from its launch on, with or without an API key: its
\* start, and then the host, which calls the hooks and tools the plugin
\* returned.
NextHost ==
  \/ \E key \in BOOLEAN : Len(plugins) < 1 /\ Launch(key, 1, 2, 3)
  \/ PluginLoad
  \/ \E p \in DOMAIN plugins : \E a \in {0, 3} : EnsureAnswer(p, a)
  \/ \E p \in DOMAIN plugins : DiscoverSkills(p)
  \/ \E p \in DOMAIN plugins : \E o \in {1, 3} :
       HasHook(p, "chat.message") /\ Len(calls) < MaxCalls - 2 /\ ChatMessage(o)
  \/ \E p \in DOMAIN plugins : \E f \in MainFacts :
       HasTool(p, RememberName) /\ Remember(f)
  \/ \E j \in DOMAIN jobs : JobFinish(j)
  \/ \E c \in DOMAIN calls : CallResume(c)
  \/ \E r \in requests : \E ok \in BOOLEAN : StoreAnswer(r, ok)

SpecHost == Init /\ [][NextHost]_vars

\* The memory tools on their own: the agent calls remember and recall with
\* every fact and query of the tables, and the store answers with success,
\* with every result of the table, or with every error.
NextMemory ==
  \/ \E f \in DOMAIN FactTable :
       Len(remembers) + Len(recalls) < MaxToolCalls /\ Remember(f)
  \/ \E q \in DOMAIN QueryTable :
       Len(remembers) + Len(recalls) < MaxToolCalls /\ Recall(q)
  \/ \E r \in requests : \E a \in 0..Len(StoreErrors) : StoreReply(r, a)
  \/ \E r \in DOMAIN recalls : \E a \in 0..Len(StoreErrors) :
       \E res \in DOMAIN SearchResults :
         (a = 0 \/ res = 1) /\ SearchAnswer(r, a, res)

SpecMemory == InitStart /\ [][NextMemory]_vars

\* The listings of the skills directory: up to MaxSkills files of the
\* table, in any order.
RECURSIVE Listings(_)
Listings(n) ==
  IF n = 0 THEN {<<>>}
  ELSE LET shorter == Listings(n - 1)
       IN shorter \cup
            { Append(l, m) : l \in {x \in shorter : Len(x) = n - 1},
                             m \in DOMAIN ManifestTable }

SkillListings ==
  { l \in Listings(MaxSkills) : \A a, b \in DOMAIN l : a # b => l[a] # l[b] }

InitSkills ==
  /\ asyncStorage = TRUE
  /\ outputs = <<>>
  /\ calls = <<>>
  /\ jobs = <<>>
  /\ waiting = <<>>
  /\ pending = 0
  /\ requests = {}
  /\ storeLog = <<>>
  /\ remembers = <<>>
  /\ exit = NoExit
  /\ unhandled = FALSE
  /\ text = <<>>
  /\ segments = <<>>
  /\ phase = "off"
  /\ NoStart
  /\ skillsDir \in SkillListings
  /\ recalls = <<>>
  /\ invocations = <<>>
  /\ session = <<>>
  /\ NoCli

\* The names the host may call a tool by: those of the skills of the table.
SkillToolNames ==
  { ToolName(ManifestTable[m].name) :
      m \in {x \in DOMAIN ManifestTable : ManifestTable[x].hasName} }

\* A plugin start over every listing of the skills directory, and then one
\* call of a skill's tool.
NextSkills ==
  \/ Len(plugins) < 1 /\ Launch(TRUE, 1, 2, 3)
  \/ PluginLoad
  \/ \E p \in DOMAIN plugins : EnsureAnswer(p, 0)
  \/ \E p \in DOMAIN plugins : DiscoverSkills(p)
  \/ \E p \in DOMAIN plugins : \E t \in SkillToolNames :
       Len(invocations) < 1 /\ SkillInvoke(p, t, 1)
  \/ \E i \in DOMAIN invocations : \E a \in 0..Len(PromptErrors) :
       PromptAnswer(i, a)

SpecSkills == InitSkills /\ [][NextSkills]_vars

\* The sessions of the host.
SessionIds == {1, 2}

\* The plugin with the bundled skill, alone or after a second skill, and
\* the host calling the skills' tools from its sessions, up to
\* MaxInvocations calls that may overlap.
InitDelivery ==
  /\ InitSkills
  /\ skillsDir \in {<<1>>, <<7, 1>>}

NextDelivery ==
  \/ Len(plugins) < 1 /\ Launch(TRUE, 1, 2, 3)
  \/ PluginLoad
  \/ \E p \in DOMAIN plugins : EnsureAnswer(p, 0)
  \/ \E p \in DOMAIN plugins : DiscoverSkills(p)
  \/ \E p \in DOMAIN plugins : \E t \in SkillToolNames : \E sid \in SessionIds :
       Len(invocations) < MaxInvocations /\ SkillInvoke(p, t, sid)
  \/ \E i \in DOMAIN invocations : \E a \in 0..Len(PromptErrors) :
       PromptAnswer(i, a)

SpecDelivery == InitDelivery /\ [][NextDelivery]_vars

\* One plugin with the bundled skill and everything the host does with it
\* at once: chat messages through the storage queue, remember, recall, and
\* a call of the skill's tool.
NextFrame ==
  \/ Len(plugins) < 1 /\ Launch(TRUE, 1, 2, 3)
  \/ PluginLoad
  \/ \E p \in DOMAIN plugins : EnsureAnswer(p, 0)
  \/ \E p \in DOMAIN plugins : DiscoverSkills(p)
  \/ \E p \in DOMAIN plugins :
       HasHook(p, "chat.message") /\ Len(calls) < MaxCalls - 1 /\ ChatMessage(1)
  \/ \E j \in DOMAIN jobs : JobFinish(j)
  \/ \E c \in DOMAIN calls : CallResume(c)
  \/ \E r \in requests : StoreAnswer(r, TRUE)
  \/ \E p \in DOMAIN plugins : HasTool(p, RememberName) /\ Remember(4)
  \/ \E p \in DOMAIN plugins :
       HasTool(p, RecallName) /\ Len(recalls) < 1 /\ Recall(4)
  \/ \E r \in DOMAIN recalls : SearchAnswer(r, 0, 4)
  \/ \E p \in DOMAIN plugins : \E t \in SkillToolNames :
       Len(invocations) < 1 /\ SkillInvoke(p, t, 1)
  \/ \E i \in DOMAIN invocations : \E a \in {0, 1} : PromptAnswer(i, a)

SpecFrame == Init /\ [][NextFrame]_vars

\* The ingestion pipeline fed with messages of two and of three segments,
\* one call fewer than in the other runs.
NextSegments ==
  \/ \E o \in {4, 8} : Len(calls) < MaxCalls - 1 /\ ChatMessage(o)
  \/ \E j \in DOMAIN jobs : JobFinish(j)
  \/ \E c \in DOMAIN calls : CallResume(c)
  \/ \E r \in requests : \E ok \in BOOLEAN : StoreAnswer(r, ok)

SpecSegments == Init /\ [][NextSegments]_vars

\* One start with an API key against a store that answers each ensure
\* call with success or with an error that is no conflict; the host then
\* calls the chat.message hook and the memory tools the plugin returned.
NextDegrade ==
  \/ Len(plugins) < 1 /\ Launch(TRUE, 1, 2, 3)
  \/ PluginLoad
  \/ \E p \in DOMAIN plugins : \E a \in {0} \cup FailureErrors : EnsureAnswer(p, a)
  \/ \E p \in DOMAIN plugins : DiscoverSkills(p)
  \/ \E p \in DOMAIN plugins :
       HasHook(p, "chat.message") /\ Len(calls) < MaxCalls - 2 /\ ChatMessage(1)
  \/ \E p \in DOMAIN plugins : HasTool(p, RememberName) /\ Remember(4)
  \/ \E p \in DOMAIN plugins :
       HasTool(p, RecallName) /\ Len(recalls) < 1 /\ Recall(4)
  \/ \E j \in DOMAIN jobs : JobFinish(j)
  \/ \E c \in DOMAIN calls : CallResume(c)
  \/ \E r \in requests : \E ok \in BOOLEAN : StoreAnswer(r, ok)
  \/ \E r \in DOMAIN recalls : \E a \in {0, 3} : SearchAnswer(r, a, 4)

SpecDegrade == Init /\ [][NextDegrade]_vars

\* ---------------------------------------------------------- config merges
\* mergeConfig is applied to the config object, which it changes in place.
Merge(overwrite) ==
  /\ Len(merged.options) < MaxMerges
  /\ LET options == [overwrite |-> overwrite]
     IN merged' = [merged EXCEPT
          !.config = mergeConfig(merged.config, getAgentTemplates, options),
          !.options = Append(merged.options, options)]
  /\ UNCHANGED <<pipelineVars, chunkVars, startVars, toolVars, disk, write, setup>>

\* Up to MaxMerges merges, each in either mode, of every existing config.
InitMerge ==
  /\ NoPlugin
  /\ merged \in { [original |-> c, config |-> c, options |-> <<>>] :
                    c \in ExistingConfigs }
  /\ disk = NoDisk
  /\ write = NoWrite
  /\ setup = NoSetup

NextMerge == \E overwrite \in BOOLEAN : Merge(overwrite)

SpecMerge == InitMerge /\ [][NextMerge]_vars

\* ----------------------------------------------------------- atomic writes
\* A catch block that leaves the temp file where it is.
CleanupNever(files, tempPath) == "thrown"

\* catch (error) { if (existsSync(tempPath)) await fs.unlink(tempPath);
\* throw error }: where the call goes on after an error, to the unlink or
\* straight to the throw.
Cleanup(files, tempPath) ==
  IF files[tempPath].exists THEN "unlink.cleanup" ELSE "thrown"

\* atomicWrite(filePath, content) is called and runs up to its first
\* await, of fs.writeFile(tempPath, content, 'utf8').
AtomicWrite(filePath, c) ==
  /\ write.pc \in {"idle", "returned", "thrown"}
  /\ write.calls < MaxWrites
  /\ write' = [pc |-> "writeFile", path |-> filePath,
               content |-> ContentTable[c], before |-> disk[filePath],
               error |-> "none", calls |-> write.calls + 1,
               renamed |-> FALSE]
  /\ UNCHANGED <<pipelineVars, chunkVars, startVars, toolVars, merged, disk, setup>>

\* fs.writeFile settles.  "ok": the temp file holds the content; the call
\* runs on through the JSON validation to the unlink of the inner catch or
\* to the rename.  "failed": nothing was created; "partial": a part of the
\* text was written before the error.  After an error the outer catch runs.
WriteFileAnswer(outcome) ==
  /\ write.pc = "writeFile"
  /\ LET tempPath == TempPath(write.path)
         written == [disk EXCEPT ![tempPath] =
                       IF outcome = "ok" THEN write.content
                       ELSE IF outcome = "partial" THEN Partial
                       ELSE @]
     IN /\ disk' = written
        /\ write' =
             IF outcome = "ok"
               THEN IF EndsWith(write.path, JsonSuffix) /\ ~write.content.json
                      THEN [write EXCEPT !.pc = "unlink.invalid"]
                      ELSE [write EXCEPT !.pc = "rename"]
               ELSE [write EXCEPT !.error = "writeFile failed",
                                  !.pc = Cleanup(written, tempPath)]
  /\ UNCHANGED <<pipelineVars, chunkVars, startVars, toolVars, merged, setup>>

\* fs.unlink(tempPath) settles, of the inner catch (then the new Error
\* 'Invalid JSON generated' is thrown, and the outer catch finds no temp
\* file) or of the outer catch (then the error it caught is thrown).
UnlinkAnswer ==
  /\ write.pc \in {"unlink.invalid", "unlink.cleanup"}
  /\ LET tempPath == TempPath(write.path)
         unlinked == [disk EXCEPT ![tempPath] = Absent]
     IN /\ disk' = unlinked
        /\ write' =
             IF write.pc = "unlink.invalid"
               THEN [write EXCEPT !.error = "Invalid JSON generated",
                                  !.pc = Cleanup(unlinked, tempPath)]
               ELSE [write EXCEPT !.pc = "thrown"]
  /\ UNCHANGED <<pipelineVars, chunkVars, startVars, toolVars, merged, setup>>

\* fs.rename(tempPath, filePath) settles: the destination is the temp file
\* and the call returns, or nothing has moved and the outer catch runs.
RenameAnswer(ok) ==
  /\ write.pc = "rename"
  /\ LET tempPath == TempPath(write.path)
     IN IF ok
          THEN /\ disk' = [disk EXCEPT ![write.path] = disk[tempPath],
                                       ![tempPath] = Absent]
               /\ write' = [write EXCEPT !.pc = "returned", !.renamed = TRUE]
          ELSE /\ disk' = disk
               /\ write' = [write EXCEPT !.error = "rename failed",
                                         !.pc = Cleanup(disk, tempPath)]
  /\ UNCHANGED <<pipelineVars, chunkVars, startVars, toolVars, merged, setup>>

\* The project directory before the calls: with or without opencode.json
\* and notes.md.
InitWrite ==
  /\ NoPlugin
  /\ merged = NoMerge
  /\ \E config \in {Absent, File("old config", TRUE)} :
       \E notes \in {Absent, File("old notes", FALSE)} :
         disk = [NoDisk EXCEPT ![ConfigPath] = config, ![NotesPath] = notes]
  /\ write = NoWrite
  /\ setup = NoSetup

NextWrite ==
  \/ \E filePath \in {ConfigPath, NotesPath} : \E c \in DOMAIN ContentTable :
       AtomicWrite(filePath, c)
  \/ \E outcome \in {"ok", "failed", "partial"} : WriteFileAnswer(outcome)
  \/ UnlinkAnswer
  \/ \E ok \in BOOLEAN : RenameAnswer(ok)

SpecWrite == InitWrite /\ [][NextWrite]_vars

\* -------------------------------------------------------------- setup runs
\* The values of ZEP_API_KEY: not set, "", "sk-12345", "zep_12345".
KeyTable ==
  << [set |-> FALSE, chars |-> <<>>],
     [set |-> TRUE,  chars |-> <<>>],
     [set |-> TRUE,  chars |-> <<115, 107, 45, 49, 50, 51, 52, 53>>],
     [set |-> TRUE,  chars |-> <<122, 101, 112, 95, 49, 50, 51, 52, 53>>] >>

\* "zep_"
ZepPrefix ==
  <<122, 101, 112, 95>>

\* A validation that takes any key that is there.
validateEnvironmentAnyKey(environment) ==
  IF ~Truthy(KeyTable[environment.ZEP_API_KEY])
    THEN "Missing ZEP_API_KEY environment variable"
  ELSE IF ~Truthy(UserTable[environment.ZEP_USER_ID])
    THEN "Missing ZEP_USER_ID environment variable"
  ELSE "none"

\* validateEnvironment(), verify.ts 21-49: the message of the error it
\* throws, "none" if it returns.
validateEnvironment(environment) ==
  IF ~Truthy(KeyTable[environment.ZEP_API_KEY])
    THEN "Missing ZEP_API_KEY environment variable"
  ELSE IF ~Truthy(UserTable[environment.ZEP_USER_ID])
    THEN "Missing ZEP_USER_ID environment variable"
  ELSE IF ~StartsWith(KeyTable[environment.ZEP_API_KEY].chars, ZepPrefix)
    THEN "Invalid ZEP_API_KEY format"
  ELSE "none"

\* catch (error) { console.error(...); process.exit(1) } of main.
MainCatch(run, message) ==
  [run EXCEPT !.pc = "exited", !.exitCode = 1, !.error = message]

\* setupAgents(flags) is called and runs up to its first await: of the
\* copyFile of createBackup if opencode.json exists, of the writeFile of
\* atomicWrite otherwise.
EnterAgents(run) ==
  [run EXCEPT !.steps = Append(@, "setupAgents"),
              !.pc = IF disk[ConfigPath].exists THEN "backup" ELSE "write"]

\* The config setupAgents makes when there is no opencode.json (377-386).
FreshConfig ==
  [schema |-> SchemaUrl, hasPlugin |-> TRUE, plugin |-> <<PluginName>>,
   hasAgent |-> TRUE, agent |-> getAgentTemplates,
   hasPermission |-> TRUE, permission |-> DefaultPermission]

\* node bin/setup.js [--overwrite]: main imports the modules, prints the
\* banner and calls verify(); validateEnvironment throws or returns, and
\* then testZepConnection awaits zep.user.get.
SetupRun(overwrite, key, user) ==
  /\ setup.pc = "off"
  /\ LET environment == [ZEP_API_KEY |-> key, ZEP_USER_ID |-> user]
         run == [setup EXCEPT !.flags = [overwrite |-> overwrite],
                              !.env = environment,
                              !.steps = <<"verify">>,
                              !.start = disk]
         message == validateEnvironment(environment)
     IN setup' = IF message # "none" THEN MainCatch(run, message)
                 ELSE [run EXCEPT !.pc = "user.get"]
  /\ UNCHANGED <<pipelineVars, chunkVars, startVars, toolVars, merged, disk, write>>

\* zep.user.get settles: with the user (verify returns and setupAgents is
\* called), with status 404 (zep.user.add is awaited), or with another
\* error (testZepConnection throws 'Zep connection failed: ...').
UserGetAnswer(answer) ==
  /\ setup.pc = "user.get"
  /\ setup' =
       IF answer = "found" THEN EnterAgents([setup EXCEPT !.userGet = answer])
       ELSE IF answer = "404" THEN [setup EXCEPT !.userGet = answer, !.pc = "user.add"]
       ELSE MainCatch([setup EXCEPT !.userGet = answer], "Zep connection failed")
  /\ UNCHANGED <<pipelineVars, chunkVars, startVars, toolVars, merged, disk, write>>

\* zep.user.add of the connection test settles.
UserAddAnswer(ok) ==
  /\ setup.pc = "user.add"
  /\ setup' =
       IF ok THEN EnterAgents([setup EXCEPT !.userAdd = "created"])
       ELSE MainCatch([setup EXCEPT !.userAdd = "failed"], "Zep connection failed")
  /\ UNCHANGED <<pipelineVars, chunkVars, startVars, toolVars, merged, disk, write>>

\* The copyFile of createBackup settles.  After the backup the config is
\* read: readJsonFile throws for a text that is no JSON; otherwise the
\* config is merged and atomicWrite is called.
BackupAnswer(ok) ==
  /\ setup.pc = "backup"
  /\ IF ok
       THEN /\ disk' = [disk EXCEPT ![BackupPath(ConfigPath)] = disk[ConfigPath]]
            /\ setup' = IF disk[ConfigPath].json
                          THEN [setup EXCEPT !.pc = "write"]
                          ELSE MainCatch(setup, "Failed to read JSON file")
       ELSE /\ disk' = disk
            /\ setup' = MainCatch(setup, "copyFile failed")
  /\ UNCHANGED <<pipelineVars, chunkVars, startVars, toolVars, merged, write>>

\* setupPrompts(flags) is called and runs up to its first await: of mkdir
\* if there is no prompts directory, of the first copyFile otherwise.
EnterPrompts(run, files) ==
  [run EXCEPT !.steps = Append(@, "setupPrompts"),
              !.pc = IF files[PromptsDir].exists THEN "copy" ELSE "mkdir"]

\* atomicWrite(configPath, formatJson(config)) settles: opencode.json is
\* the merged config, or the fresh one, and setupPrompts is called; or the
\* write has thrown and left opencode.json as it was.
ConfigWriteAnswer(ok) ==
  /\ setup.pc = "write"
  /\ IF ok
       THEN LET config == IF disk[ConfigPath].exists
                            THEN mergeConfig(disk[ConfigPath].config,
                                             getAgentTemplates, setup.flags)
                            ELSE FreshConfig
                written == [disk EXCEPT ![ConfigPath] = ConfigFile(config)]
            IN /\ disk' = written
               /\ setup' = EnterPrompts(setup, written)
       ELSE /\ disk' = disk
            /\ setup' = MainCatch(setup, "atomicWrite failed")
  /\ UNCHANGED <<pipelineVars, chunkVars, startVars, toolVars, merged, write>>

\* fs.mkdir(userPromptsDir) settles.
MkdirAnswer(ok) ==
  /\ setup.pc = "mkdir"
  /\ IF ok
       THEN /\ disk' = [disk EXCEPT ![PromptsDir] = File("directory", FALSE)]
            /\ setup' = [setup EXCEPT !.pc = "copy"]
       ELSE /\ disk' = disk
            /\ setup' = MainCatch(setup, "mkdir failed")
  /\ UNCHANGED <<pipelineVars, chunkVars, startVars, toolVars, merged, write>>

\* The prompt files the loop of setupPrompts copies: those that are not
\* there, and all of them with the overwrite flag.
Copied(files, overwrite, upTo) ==
  [p \in AllPaths |->
     IF \E k \in 1..upTo :
          /\ p = PromptPath(REQUIRED_PROMPTS[k])
          /\ (overwrite \/ ~files[p].exists)
       THEN File("plugin prompt", FALSE)
       ELSE files[p]]

\* The copy loop of setupPrompts runs: to its end (failedAt = 0), and main
\* prints 'Setup complete' and returns; or up to the copyFile of file
\* failedAt, which throws.
CopyAnswer(failedAt) ==
  /\ setup.pc = "copy"
  /\ IF failedAt = 0
       THEN /\ disk' = Copied(disk, setup.flags.overwrite, Len(REQUIRED_PROMPTS))
            /\ setup' = [setup EXCEPT !.pc = "exited", !.exitCode = 0]
       ELSE /\ LET p == PromptPath(REQUIRED_PROMPTS[failedAt])
               IN setup.flags.overwrite \/ ~disk[p].exists
            /\ disk' = Copied(disk, setup.flags.overwrite, failedAt - 1)
            /\ setup' = MainCatch(setup, "copyFile failed")
  /\ UNCHANGED <<pipelineVars, chunkVars, startVars, toolVars, merged, write>>

\* A config the user wrote: another plugin, an own fullstack agent.
UserConfig ==
  [schema |-> "", hasPlugin |-> TRUE, plugin |-> <<"other">>,
   hasAgent |-> TRUE, agent |-> [n \in {"fullstack"} |-> UserAgent],
   hasPermission |-> FALSE, permission |-> UserPermission]

\* The project directory before the run: no opencode.json, the user's, or
\* one that is no JSON; no prompts directory, or one with the user's own
\* fullstack.md.
InitSetupCli ==
  /\ NoPlugin
  /\ merged = NoMerge
  /\ write = NoWrite
  /\ setup = NoSetup
  /\ \E config \in {Absent, ConfigFile(UserConfig), File("broken", FALSE)} :
       \E prompts \in BOOLEAN :
         disk = [NoDisk EXCEPT
                   ![ConfigPath] = config,
                   ![PromptsDir] = IF prompts THEN File("directory", FALSE) ELSE Absent,
                   ![PromptPath(FullstackMd)] =
                      IF prompts THEN File("user prompt", FALSE) ELSE Absent]

NextSetupCli ==
  \/ \E overwrite \in BOOLEAN : \E key \in DOMAIN KeyTable :
       \E user \in {1, 2} : SetupRun(overwrite, key, user)
  \/ \E answer \in {"found", "404", "error"} : UserGetAnswer(answer)
  \/ \E ok \in BOOLEAN : UserAddAnswer(ok)
  \/ \E ok \in BOOLEAN : BackupAnswer(ok)
  \/ \E ok \in BOOLEAN : ConfigWriteAnswer(ok)
  \/ \E ok \in BOOLEAN : MkdirAnswer(ok)
  \/ \E failedAt \in 0..Len(REQUIRED_PROMPTS) : CopyAnswer(failedAt)

SpecSetupCli == InitSetupCli /\ [][NextSetupCli]_vars

\* --------------------------------------------------- the host's own writes
\* The host (or a hook of another plugin that runs after this one) changes
\* the output object of call c while the job of the call still waits in the
\* queue: output.parts and output.message are those of entry o of the
\* table from now on.  submitted keeps what the object held when
\* chat.message was called.
HostChange(c, o) ==
  /\ c \in DOMAIN outputs
  /\ jobs[c].st = "queued"
  /\ "submitted" \notin DOMAIN outputs[c]
  /\ OutputTable[o] # outputs[c]
  /\ outputs' = [outputs EXCEPT ![c] =
       [role |-> OutputTable[o].role, parts |-> OutputTable[o].parts,
        submitted |-> outputs[c]]]
  /\ UNCHANGED <<asyncStorage, calls, jobs, waiting, pending, requests,
                 storeLog, remembers, exit, unhandled, chunkVars, startVars,
                 toolVars, cliVars>>

\* Two calls of the hook, the second of which waits behind the first, and
\* a host that changes the output of a call whose job waits.
NextHostChange ==
  \/ \E o \in {1, 4} : Len(calls) < MaxCalls - 1 /\ ChatMessage(o)
  \/ \E c \in DOMAIN outputs : \E o \in {2, 3} : HostChange(c, o)
  \/ \E j \in DOMAIN jobs : JobFinish(j)
  \/ \E c \in DOMAIN calls : CallResume(c)
  \/ \E r \in requests : StoreAnswer(r, TRUE)

SpecHostChange == Init /\ [][NextHostChange]_vars

\* ------------------------------------------------- tool calls after writes
\* Chat messages, and calls of the memory tools made once a chat.message
\* call has returned to the host; the store accepts or fails every write.
NextReadAfterWrite ==
  \/ \E o \in {1, 4} : Len(calls) < MaxCalls - 1 /\ ChatMessage(o)
  \/ \E j \in DOMAIN jobs : JobFinish(j)
  \/ \E c \in DOMAIN calls : CallResume(c)
  \/ \E r \in requests : \E ok \in BOOLEAN : StoreAnswer(r, ok)
  \/ (\E c \in DOMAIN calls : calls[c].st = "returned") /\ Remember(4)
  \/ /\ \E c \in DOMAIN calls : calls[c].st = "returned"
     /\ Len(recalls) < 1
     /\ Recall(4)
  \/ \E r \in DOMAIN recalls : SearchAnswer(r, 0, 4)

SpecReadAfterWrite == Init /\ [][NextReadAfterWrite]_vars

\* ----------------------------------------------------------- chunking runs
\* The lengths of the texts handed to chunkMessage: next to 0, next to the
\* direct limit, next to every multiple of the segment size, and the 6000
\* characters of the documented example.
RouteLengths ==
  (0..Margin)
    \cup ((DIRECT_LIMIT - Margin)..(DIRECT_LIMIT + Margin))
    \cup UNION { ((k * SEGMENT_LIMIT) - Margin)..((k * SEGMENT_LIMIT) + Margin) :
                 k \in 1..MaxSegments }
    \cup {SEGMENT_LIMIT + 1500}

InitChunk ==
  /\ asyncStorage = TRUE
  /\ outputs = <<>>
  /\ calls = <<>>
  /\ jobs = <<>>
  /\ waiting = <<>>
  /\ pending = 0
  /\ requests = {}
  /\ storeLog = <<>>
  /\ remembers = <<>>
  /\ exit = NoExit
  /\ unhandled = FALSE
  /\ \E n \in RouteLengths : \E seed \in 0..MaxSeed : text = Pattern(n, seed)
  /\ segments = <<>>
  /\ phase = "input"
  /\ NoStart
  /\ NoTools
  /\ NoCli

\* const chunks = chunkMessage(textContent, 4500)
ChunkText ==
  /\ phase = "input"
  /\ segments' = chunkMessage(text, SEGMENT_LIMIT)
  /\ phase' = "chunked"
  /\ UNCHANGED <<asyncStorage, queueVars, requests, storeLog, remembers,
                 exit, unhandled, text, startVars, toolVars, cliVars>>

NextChunk == ChunkText

SpecChunk == InitChunk /\ [][NextChunk]_vars

\* ============================================================== properties
Range(seq) == { seq[k] : k \in DOMAIN seq }

\* The events of the store log that belong to job j, in order.
JobEvents(j) == SelectSeq(storeLog, LAMBDA e : e.req.n = j)

JobIssues(j) == SelectSeq(storeLog, LAMBDA e : e.req.n = j /\ e.ev = "issue")

JobFailed(j) == \E k \in DOMAIN storeLog :
                  storeLog[k].req.n = j /\ storeLog[k].ev = "fail"

\* C1: the store calls of the chat.message jobs are issued in the order the
\* calls were made: in the history of store traffic no event of a job comes
\* after an event of a later job, and while a request of job i is with the
\* store no request of a later job has been issued, however long the store
\* takes to answer.
C1_StoreCallsInSubmissionOrder ==
  /\ \A a, b \in DOMAIN storeLog :
       a < b => storeLog[a].req.n <= storeLog[b].req.n
  /\ \A r \in requests : \A b \in DOMAIN storeLog :
       r.by = "job" => storeLog[b].req.n <= r.n

\* C1 witness: in non-blocking mode three calls were made, the store
\* rejected the first job's write and accepted the second's, and the job
\* submitted last has issued its store call after both answers.
C1_Witness ==
  /\ Len(calls) = 3
  /\ asyncStorage
  /\ \E a, b, c \in DOMAIN storeLog :
       /\ a < b /\ b < c
       /\ storeLog[a].req.n = 1 /\ storeLog[a].ev = "fail"
       /\ storeLog[b].req.n = 2 /\ storeLog[b].ev = "ok"
       /\ storeLog[c].req.n = 3 /\ storeLog[c].ev = "issue"

\* C2: at most one job of the storage queue is in flight; a job submitted
\* while another is in flight waits, and the waiting jobs are started oldest
\* first: the waiting list is in submission order and every waiting job was
\* submitted after every job that has been started.
C2_OneJobInFlight ==
  LET started == {j \in DOMAIN jobs : jobs[j].st \in {"running", "returned"}}
      queued == {j \in DOMAIN jobs : jobs[j].st = "queued"}
  IN /\ pending <= 1
     /\ Cardinality(started) = pending
     /\ Cardinality({r \in requests : r.by = "job"}) <= 1
     /\ queued = Range(waiting)
     /\ \A a, b \in DOMAIN waiting : a < b => waiting[a] < waiting[b]
     /\ waiting # <<>> => pending = 1
     /\ \A j \in queued : \A i \in DOMAIN jobs \ queued : i < j

\* C2 witness: the first job is finished, the second is the one in flight
\* with its request at the store, and the third waits behind it.
C2_Witness ==
  /\ Len(calls) = 3
  /\ jobs[1].st = "settled"
  /\ jobs[2].st = "running"
  /\ waiting = <<3>>
  /\ \E r \in requests : r.by = "job" /\ r.n = 2

\* C3: at most one write request is with the store at any moment, counting
\* the writes of the chat.message jobs and the write of the remember tool.
C3_OneWriteInFlight == Cardinality(requests) <= 1

\* C4: the segments chunkMessage(T, 4500) returns, concatenated in the order
\* they were emitted, are exactly T.
C4_SegmentsReassemble ==
  phase = "chunked" => Concat(segments) = text

\* C4 witness: a text longer than two full segments was chunked.
C4_Witness ==
  /\ phase = "chunked"
  /\ Len(text) > 2 * SEGMENT_LIMIT
  /\ Len(segments) = 3

\* C5: every segment is non-empty and has at most SEGMENT_LIMIT characters,
\* which is below the store's ceiling; segment k is the slice of the text
\* that starts where segment k-1 ended, and every segment except the last has
\* exactly SEGMENT_LIMIT characters.
C5_SegmentsBounded ==
  phase = "chunked" =>
    /\ SEGMENT_LIMIT < STORE_MAX_PAYLOAD
    /\ \A k \in DOMAIN segments :
         /\ Len(segments[k]) >= 1
         /\ Len(segments[k]) <= SEGMENT_LIMIT
         /\ k < Len(segments) => Len(segments[k]) = SEGMENT_LIMIT
         /\ segments[k] = SubSeq(text, (k - 1) * SEGMENT_LIMIT + 1,
                                 Min(k * SEGMENT_LIMIT, Len(text)))
    /\ Len(text) > 0 => Len(segments) >= 1

\* C5 witness: an oversized text whose length is an exact multiple of the
\* segment size was chunked into full segments only.
C5_Witness ==
  /\ phase = "chunked"
  /\ Len(text) = 2 * SEGMENT_LIMIT
  /\ Len(segments) = 2

\* The text job j extracted when it was started.
JobText(j) == Join(jobs[j].texts)

\* ceil(n / d)
CeilDiv(n, d) == (n + d - 1) \div d

JobEnded(j) == jobs[j].st \in {"returned", "settled"}

HasText(c) == ~IsEmptyText(Join(PartTexts(outputs[c].parts)))

\* C7: in non-blocking mode every chat.message call has returned in the step
\* that made it, with its store write still open (not yet answered, or not
\* even issued); in blocking mode a call that is back with the host has its
\* job finished and no store write of it open.
C7_ReturnVersusWrite ==
  \A c \in DOMAIN calls :
    /\ asyncStorage =>
         /\ calls[c].st = "returned"
         /\ HasText(c) => calls[c].writeOpen
    /\ ~asyncStorage =>
         (calls[c].st # "awaiting" =>
            /\ ~calls[c].writeOpen
            /\ jobs[c].st = "settled"
            /\ ~WriteOpen(c, jobs, requests))

\* C7 witness: in non-blocking mode a call has returned while its request is
\* with the store, unanswered.
C7_Witness ==
  /\ asyncStorage
  /\ \E c \in DOMAIN calls :
       /\ calls[c].st = "returned"
       /\ \E r \in requests : r.by = "job" /\ r.n = c

\* C8: in non-blocking mode no store failure reaches the host: no
\* chat.message call rejects, and no rejection is left unhandled.
C8_AsyncFailuresContained ==
  asyncStorage =>
    /\ ~unhandled
    /\ \A c \in DOMAIN calls : calls[c].st = "returned"
    /\ \A j \in DOMAIN jobs : jobs[j].result # "rejected"

\* C8 witness: in non-blocking mode the store rejected a write and the job
\* has been finished by the queue.
C8_Witness ==
  /\ asyncStorage
  /\ \E j \in DOMAIN jobs : JobFailed(j) /\ jobs[j].st = "settled"

\* C9: in blocking mode a call whose write failed is surfaced to the host as
\* a rejection: once such a call is no longer awaiting, it has rejected.
C9_BlockingFailureSurfaced ==
  ~asyncStorage =>
    \A c \in DOMAIN calls :
      (JobFailed(c) /\ calls[c].st # "awaiting") => calls[c].st = "rejected"

\* C10: when the beforeExit handler reports the flush done, every job that
\* was queued or in flight when the handler ran has been attempted (run to
\* completion or failure); until then none of them has left the queue
\* without being run.
C10_FlushWaitsForJobs ==
  /\ exit.st = "flushed" => \A j \in exit.open : jobs[j].st = "settled"
  /\ exit.st # "none" =>
       \A j \in exit.open : jobs[j].st = "queued" => j \in Range(waiting)

\* C10 witness: in non-blocking mode the handler ran with three jobs queued
\* or in flight and has reported the flush done.
C10_Witness ==
  /\ asyncStorage
  /\ exit.st = "flushed"
  /\ exit.count = 3
  /\ Cardinality(exit.open) = 3

\* The text extracted from the output object of call c.
CallText(c) == Join(PartTexts(outputs[c].parts))

\* C11 (as claimed): a chat.message call whose extracted text is empty
\* leaves the storage queue as it was (nothing added to the waiting list,
\* nothing more in flight), sends nothing to the store and raises no error.
C11_EmptyTextNothingEnqueued ==
  [][(Len(calls') = Len(calls) + 1
        /\ Len(Join(PartTexts(outputs'[Len(calls')].parts))) = 0) =>
       /\ Len(waiting') = Len(waiting)
       /\ pending' = pending
       /\ requests' = requests
       /\ storeLog' = storeLog
       /\ calls'[Len(calls')].st # "rejected"]_vars

\* C11 (amended): the job of a call whose extracted text is empty is added
\* to the storage queue like any other (the waiting list or the in-flight
\* count grows by one) and finds the text empty when the queue starts it: it
\* sends nothing to the store, is never suspended at a store call, and ends
\* fulfilled; the call does not reject and no rejection is left unhandled.
C11_EmptyTextNoStoreCall ==
  \A c \in DOMAIN calls :
    Len(CallText(c)) = 0 =>
      /\ jobs[c].st \in {"queued", "returned", "settled"}
      /\ jobs[c].st = "queued" <=> c \in Range(waiting)
      /\ jobs[c].result \in {"none", "fulfilled"}
      /\ \A k \in DOMAIN storeLog : storeLog[k].req.n # c
      /\ \A r \in requests : ~(r.by = "job" /\ r.n = c)
      /\ calls[c].st # "rejected"
      /\ (\A d \in DOMAIN calls : Len(CallText(d)) = 0) => ~unhandled

\* C11 witness: two calls were made, one whose output has no text part and
\* one whose only text part is empty; both jobs have been run and finished
\* by the queue and the store has seen nothing.
C11_Witness ==
  /\ Len(calls) = 2
  /\ PartTexts(outputs[1].parts) = <<>>
  /\ PartTexts(outputs[2].parts) # <<>>
  /\ Len(CallText(1)) = 0 /\ Len(CallText(2)) = 0
  /\ jobs[1].st = "settled" /\ jobs[2].st = "settled"
  /\ calls[1].st = "returned" /\ calls[2].st = "returned"
  /\ storeLog = <<>>

\* The number of store calls the job of a text of L characters makes when
\* no call fails.
WantedCalls(L) ==
  IF L = 0 THEN 0
  ELSE IF L <= DIRECT_LIMIT THEN 1
  ELSE CeilDiv(L, SEGMENT_LIMIT)

C13_AcceptedJobsFinish ==
  /\ []<>(\A j \in DOMAIN jobs : jobs[j].st = "settled")
  /\ [][\A j \in DOMAIN jobs :
          /\ jobs[j].st = "queued" =>
               (jobs'[j].st = "queued" <=> j \in Range(waiting'))
          /\ jobs[j].st = "running" => jobs'[j].st \in {"running", "returned"}
          /\ jobs[j].st = "returned" => jobs'[j].st \in {"returned", "settled"}
          /\ jobs[j].st = "settled" => jobs'[j].st = "settled"]_vars

\* C13 witness: two jobs were accepted, the second while the first was in
\* flight, and both have been finished by the queue, the first after its
\* store call failed and the second after both of its segments were stored.
C13_Witness ==
  /\ Len(jobs) = 2
  /\ \A j \in DOMAIN jobs : jobs[j].st = "settled"
  /\ JobFailed(1)
  /\ ~JobFailed(2) /\ Len(JobIssues(2)) = 2
  /\ calls[2].writeOpen
  /\ waiting = <<>> /\ pending = 0

\* C14: no write is sent twice.  Among the store calls issued for one
\* chat.message call there is at most one thread.addMessages and then no
\* graph.add, or graph.add calls only, at most one per segment; this holds
\* in both modes, after store failures and while and after the beforeExit
\* handler flushes the queue.
C14_NoDuplicateWrites ==
  \A a, b \in DOMAIN storeLog :
    (/\ a < b
     /\ storeLog[a].ev = "issue" /\ storeLog[b].ev = "issue"
     /\ storeLog[a].req.n = storeLog[b].req.n) =>
      /\ storeLog[a].req.op = "graph.add"
      /\ storeLog[b].req.op = "graph.add"
      /\ storeLog[a].req.seg # storeLog[b].req.seg

\* C14 witness: the beforeExit handler has flushed the queue; before that
\* one job's store call failed, a 6000-character message went out as two
\* segments and a short one as a single direct write.
C14_Witness ==
  /\ exit.st = "flushed"
  /\ Len(jobs) = 3
  /\ \E j \in DOMAIN jobs : JobFailed(j)
  /\ \E j \in DOMAIN jobs :
       Len(JobIssues(j)) = 2 /\ ~JobFailed(j) /\ jobs[j].st = "settled"
  /\ \E j \in DOMAIN jobs :
       /\ Len(JobIssues(j)) = 1 /\ ~JobFailed(j) /\ jobs[j].st = "settled"
       /\ JobIssues(j)[1].req.op = "thread.addMessages"

\* C15: no submission is rejected because of the queue's depth.  Every
\* chat.message call, whatever waits already, adds its job: the job goes to
\* the end of the waiting list, or is started at once when the queue is
\* free; no job already accepted is touched to make room; the call returns
\* or awaits and does not reject.  The call warns exactly when, in
\* non-blocking mode, more than BACKLOG_WARN jobs wait after its own was
\* added.
C15_NeverRejectedForDepth ==
  /\ [](\A c \in DOMAIN calls :
          /\ calls[c].st # "rejected"
          /\ c \in DOMAIN jobs
          /\ jobs[c].st = "queued" <=> c \in Range(waiting))
  /\ [][Len(calls') > Len(calls) =>
         LET c == Len(calls')
         IN /\ c = Len(calls) + 1
            /\ Len(jobs) = c - 1 /\ Len(jobs') = c
            /\ \A d \in DOMAIN jobs : jobs'[d] = jobs[d]
            /\ IF waiting = <<>> /\ pending = 0
                 THEN jobs'[c].st # "queued" /\ waiting' = <<>> /\ pending' = 1
                 ELSE /\ jobs'[c].st = "queued"
                      /\ waiting' = Append(waiting, c)
                      /\ pending' = pending
            /\ calls'[c].st \in {"returned", "awaiting"}
            /\ calls'[c].warned <=>
                 (asyncStorage /\ Len(waiting') > BACKLOG_WARN)]_vars

\* C15 witness: in non-blocking mode thirteen calls were made while the
\* store held the first write; twelve jobs wait, the last in the list is the
\* job of the last call, and the calls that saw eleven and twelve jobs
\* waiting warned while the call that saw ten did not.
C15_Witness ==
  /\ asyncStorage
  /\ Len(calls) = BACKLOG_WARN + 3
  /\ Len(waiting) = BACKLOG_WARN + 2
  /\ waiting[Len(waiting)] = Len(calls)
  /\ jobs[Len(calls)].st = "queued"
  /\ ~calls[BACKLOG_WARN + 1].warned
  /\ calls[BACKLOG_WARN + 2].warned
  /\ calls[BACKLOG_WARN + 3].warned
  /\ \A c \in DOMAIN calls : calls[c].st = "returned"

\* C16: in blocking mode nothing is outstanding when control is back with
\* the host.  The jobs that wait or are in flight are jobs of calls that
\* have not returned, so their number is at most the number of such calls;
\* when no call is in progress the queue is empty and no write of a job is
\* with the store.
C16_BlockingNothingOutstanding ==
  ~asyncStorage =>
    LET inProgress == {c \in DOMAIN calls : calls[c].st = "awaiting"}
    IN /\ Len(waiting) + pending <= Cardinality(inProgress)
       /\ \A j \in DOMAIN jobs : jobs[j].st # "settled" => j \in inProgress
       /\ \A r \in requests : r.by = "job" => r.n \in inProgress
       /\ inProgress = {} =>
            /\ waiting = <<>>
            /\ pending = 0
            /\ \A r \in requests : r.by # "job"

\* C16 witness: in blocking mode the first of three calls is back with the
\* host; the other two are in progress, one with its job in flight and one
\* with its job waiting: two jobs outstanding, two calls not returned.
C16_Witness ==
  /\ ~asyncStorage
  /\ Len(calls) = 3
  /\ calls[1].st = "returned"
  /\ calls[2].st = "awaiting" /\ calls[3].st = "awaiting"
  /\ pending = 1
  /\ waiting = <<3>>

\* ZEP_THREAD_ID, ZEP_USER_ID and the directory plugin p was started with.
OverrideOf(p) == ThreadIdTable[plugins[p].env.ZEP_THREAD_ID]
DirOf(p) == DirTable[plugins[p].directory]

IsHexDigit(ch) == ch \in (48..57) \cup (97..102)

\* C17: the thread id is resolved in strict precedence.  With ZEP_THREAD_ID
\* supplied (set and not empty) the id is that value, character for
\* character, whatever the user and the directory are; else with no
\* directory (none passed, or the empty string) it is "thread-" and the user
\* id; else it is "thread-", the user id, "-" and the first 8 of the 32 hex
\* digits of the MD5 digest of the directory path.
C17_ThreadIdPrecedence ==
  \A p \in DOMAIN plugins :
    LET pl == plugins[p]
        digest == DirDigest[pl.directory]
        hex8 == SubSeq(digest, 1, 8)
    IN IF OverrideOf(p).set /\ OverrideOf(p).chars # <<>>
         THEN pl.threadId = OverrideOf(p).chars
       ELSE IF ~DirOf(p).set \/ DirOf(p).chars = <<>>
         THEN pl.threadId = ThreadPrefix \o pl.userId
       ELSE /\ pl.threadId = ThreadPrefix \o pl.userId \o DashStr \o hex8
            /\ Len(digest) = 32
            /\ \A k \in 1..8 : IsHexDigit(hex8[k])
            /\ Len(pl.threadId) = Len(pl.userId) + 16

\* C17 witness: one plugin was started with ZEP_THREAD_ID=custom-thread-id
\* in a project directory and has that id; another was started without it by
\* alice in /Users/you/project-a and has the id
\* thread-alice-2bdb9617 (MD5 of the path: 2bdb96177e6a17bd6ba125cf0a744244).
C17_Witness ==
  /\ Len(plugins) = 2
  /\ OverrideOf(1).chars # <<>>
  /\ DirOf(1).chars # <<>>
  /\ plugins[1].threadId = OverrideOf(1).chars
  /\ ~OverrideOf(2).set
  /\ plugins[2].threadId =
       <<116, 104, 114, 101, 97, 100, 45, 97, 108, 105, 99, 101, 45, 50, 98, 100, 98, 57, 54, 49, 55>>

C19_UsersSeparatedPerDirectory ==
  \A a, b \in DOMAIN plugins :
    (/\ ~Truthy(OverrideOf(a)) /\ ~Truthy(OverrideOf(b))
     /\ plugins[a].directory = plugins[b].directory) =>
      (plugins[a].threadId = plugins[b].threadId
         <=> plugins[a].userId = plugins[b].userId)

\* C19 witness: alice and bob each started the plugin in
\* /Users/you/project-a without ZEP_THREAD_ID; their thread ids differ and
\* end in the same eight digits.
C19_Witness ==
  /\ Len(plugins) = 2
  /\ ~OverrideOf(1).set /\ ~OverrideOf(2).set
  /\ plugins[1].directory = 3 /\ plugins[2].directory = 3
  /\ plugins[1].env.ZEP_USER_ID = 2
  /\ plugins[2].env.ZEP_USER_ID = 3
  /\ plugins[1].threadId # plugins[2].threadId
  /\ SubSeq(plugins[1].threadId, Len(plugins[1].threadId) - 7,
            Len(plugins[1].threadId))
       = SubSeq(plugins[2].threadId, Len(plugins[2].threadId) - 7,
                Len(plugins[2].threadId))

\* C20: the two ensure calls of a plugin start take a conflict answer (status
\* 409, or a message with 'already exists') for success: the start goes on
\* as after a plain success, to thread.create and to the rest, with no
\* critical error.  Any other error is rethrown by the call's handler: the
\* call comes to "thrown", thread.create is not called after a thrown
\* user.add, and the error is logged as critical.  So with a store that
\* only answers success or conflict, every start ends with no critical
\* error and with its user and its thread in the store.
C20_EnsureConflictIsSuccess ==
  \A p \in DOMAIN plugins :
    LET pl == plugins[p]
    IN /\ pl.userAnswer = 0 => pl.userAdd = "ok"
       /\ pl.userAnswer \in ConflictErrors => pl.userAdd = "ignored"
       /\ pl.userAnswer \in ConflictErrors \cup {0} =>
            /\ pl.threadCreate # "not called"
            /\ pl.pc \in {"thread.create", "ready"}
            /\ pl.userId \in zepStore.users
       /\ pl.userAnswer \in FailureErrors =>
            /\ pl.userAdd = "thrown"
            /\ pl.threadCreate = "not called"
            /\ pl.critical
       /\ pl.threadAnswer = 0 => pl.threadCreate = "ok"
       /\ pl.threadAnswer \in ConflictErrors => pl.threadCreate = "ignored"
       /\ pl.threadAnswer \in ConflictErrors \cup {0} =>
            /\ pl.pc = "ready"
            /\ ~pl.critical
            /\ pl.threadId \in zepStore.threads
       /\ pl.threadAnswer \in FailureErrors =>
            /\ pl.threadCreate = "thrown"
            /\ pl.critical
       /\ pl.critical <=>
            (pl.userAnswer \in FailureErrors \/ pl.threadAnswer \in FailureErrors)

\* C20 witness: alice started the plugin twice in the same project.  The
\* first start created the user and the thread; the second was answered 409
\* for the user and 'already exists' for the thread, and ended like the
\* first, with no critical error.
C20_Witness ==
  /\ Len(plugins) = 2
  /\ plugins[1].userId = plugins[2].userId
  /\ plugins[1].threadId = plugins[2].threadId
  /\ plugins[1].userAnswer = 0 /\ plugins[1].threadAnswer = 0
  /\ plugins[2].userAnswer = 1 /\ plugins[2].threadAnswer = 2
  /\ plugins[1].pc = "ready" /\ plugins[2].pc = "ready"
  /\ ~plugins[1].critical /\ ~plugins[2].critical

\* C21: a plugin started without an API key does not fail and is disabled:
\* its start has returned to the host an object with no chat.message hook
\* and no tool, it has made neither ensure call, and nothing of the
\* process has called the store or has been called by the host.
C21_NoKeyDisablesMemory ==
  \A p \in DOMAIN plugins :
    ~plugins[p].env.ZEP_API_KEY =>
      /\ plugins[p].pc = "disabled"
      /\ plugins[p].returned
      /\ ~plugins[p].critical
      /\ plugins[p].hooks = {}
      /\ DOMAIN plugins[p].tools = {}
      /\ plugins[p].userAdd = "not called"
      /\ plugins[p].threadCreate = "not called"
      /\ zepStore = [users |-> {}, threads |-> {}]
      /\ requests = {}
      /\ storeLog = <<>>
      /\ calls = <<>>
      /\ remembers = <<>>

\* A process without an API key has loaded the plugin and the plugin has
\* returned.
C21_Witness ==
  \E p \in DOMAIN plugins :
    /\ ~plugins[p].env.ZEP_API_KEY
    /\ plugins[p].returned
    /\ launch = "none"

\* C22: a remember call with an empty fact or a fact of whitespace only
\* has returned a validation error (a string that begins "Error: ") and
\* has made no call to the store.
C22_BlankFactRejected ==
  \A r \in DOMAIN remembers :
    LET fact == FactTable[remembers[r].fact]
    IN fact.isString /\ (\A k \in DOMAIN fact.chars : IsSpace(fact.chars[k])) =>
         /\ remembers[r].st = "returned"
         /\ remembers[r].result \in {FactRequired, FactEmpty}
         /\ SubSeq(remembers[r].result, 1, Len(ErrorPrefix)) = ErrorPrefix
         /\ remembers[r].storeCalls = 0
         /\ \A req \in requests : ~(req.by = "remember" /\ req.n = r)

\* remember has been called with a fact of whitespace only and has
\* returned "Error: Fact cannot be empty".
C22_Witness ==
  \E r \in DOMAIN remembers :
    /\ Len(FactTable[remembers[r].fact].chars) > 0
    /\ Len(Trim(FactTable[remembers[r].fact].chars)) = 0
    /\ remembers[r].st = "returned"
    /\ remembers[r].result = FactEmpty

\* C23, as claimed: a remember call with a fact longer than FACT_MAX has
\* returned a validation error that gives the length of the fact, and has
\* made no call to the store.
C23_LongInputRejected ==
  \A r \in DOMAIN remembers :
    LET fact == FactTable[remembers[r].fact]
    IN fact.isString /\ Len(fact.chars) > FACT_MAX =>
         /\ remembers[r].st = "returned"
         /\ SubSeq(remembers[r].result, 1, Len(ErrorPrefix)) = ErrorPrefix
         /\ Includes(remembers[r].result, Digits(Len(fact.chars)))
         /\ remembers[r].storeCalls = 0

\* C23, amended: a remember call with a fact whose trimmed text is longer
\* than FACT_MAX has returned a validation error that gives the length of
\* the trimmed text, and has made no call to the store.
C23_LongTrimmedFactRejected ==
  \A r \in DOMAIN remembers :
    LET fact == FactTable[remembers[r].fact]
    IN fact.isString /\ Len(Trim(fact.chars)) > FACT_MAX =>
         /\ remembers[r].st = "returned"
         /\ SubSeq(remembers[r].result, 1, Len(ErrorPrefix)) = ErrorPrefix
         /\ Includes(remembers[r].result, Digits(Len(Trim(fact.chars))))
         /\ remembers[r].storeCalls = 0
         /\ \A req \in requests : ~(req.by = "remember" /\ req.n = r)

\* remember has rejected a fact that is too long with and without the
\* whitespace around it.
C23_Witness ==
  \E r \in DOMAIN remembers :
    LET fact == FactTable[remembers[r].fact]
    IN /\ fact.isString
       /\ Len(Trim(fact.chars)) > FACT_MAX
       /\ Len(fact.chars) > Len(Trim(fact.chars))
       /\ remembers[r].st = "returned"
       /\ remembers[r].result =
            FactTooLong \o Digits(Len(Trim(fact.chars))) \o FactTooLongEnd

\* The recall call has been rejected by the validation: it has returned a
\* string that begins "Error: " and has sent no search.
RejectedLocally(r) ==
  /\ recalls[r].st = "returned"
  /\ SubSeq(recalls[r].result, 1, Len(ErrorPrefix)) = ErrorPrefix
  /\ recalls[r].searches = <<>>

\* C24, as claimed: a recall call with an empty query, a query of
\* whitespace only or a query longer than QUERY_MAX is rejected locally,
\* and every search sent asks for at most 5 results.
C24_BadQueryRejected ==
  \A r \in DOMAIN recalls :
    LET query == QueryTable[recalls[r].query]
    IN /\ query.isString /\ Len(Trim(query.chars)) = 0 => RejectedLocally(r)
       /\ query.isString /\ Len(query.chars) > QUERY_MAX => RejectedLocally(r)
       /\ \A k \in DOMAIN recalls[r].searches : recalls[r].searches[k].limit <= 5

\* C24, amended: a recall call with an empty query, a query of whitespace
\* only or a query whose trimmed text is longer than QUERY_MAX is rejected
\* locally, with the message of its case, and every search sent asks for at
\* most 5 results.
C24_BadTrimmedQueryRejected ==
  \A r \in DOMAIN recalls :
    LET query == QueryTable[recalls[r].query]
        trimmed == Trim(query.chars)
    IN /\ query.isString /\ Len(trimmed) = 0 =>
            RejectedLocally(r) /\ recalls[r].result \in {QueryRequired, QueryEmpty}
       /\ query.isString /\ Len(trimmed) > QUERY_MAX =>
            /\ RejectedLocally(r)
            /\ recalls[r].result =
                 QueryTooLong \o Digits(Len(trimmed)) \o QueryTooLongEnd
       /\ Len(recalls[r].searches) <= 1
       /\ \A k \in DOMAIN recalls[r].searches : recalls[r].searches[k].limit <= 5

\* One recall call has been rejected for a query that is too long, and
\* another has sent a search.
C24_Witness ==
  /\ \E r \in DOMAIN recalls :
       /\ Len(Trim(QueryTable[recalls[r].query].chars)) > QUERY_MAX
       /\ RejectedLocally(r)
  /\ \E r \in DOMAIN recalls : Len(recalls[r].searches) = 1

\* C25: no call of remember or recall ends by throwing: whatever the store
\* answered, a call that has ended has returned a string: for remember a
\* validation error, the confirmation or the description of the store's
\* error; for recall a validation error, the list of results, the
\* no-results message or the description of the store's error.
C25_ToolsReturnStrings ==
  /\ \A r \in DOMAIN remembers :
       /\ remembers[r].st \in {"awaiting", "returned"}
       /\ remembers[r].st = "returned" =>
            \/ StartsWith(remembers[r].result, ErrorPrefix)
            \/ StartsWith(remembers[r].result, RememberedPrefix)
            \/ StartsWith(remembers[r].result, StoreFailedPrefix)
  /\ \A r \in DOMAIN recalls :
       /\ recalls[r].st \in {"awaiting", "returned"}
       /\ recalls[r].st = "returned" =>
            \/ StartsWith(recalls[r].result, ErrorPrefix)
            \/ StartsWith(recalls[r].result, FoundPrefix)
            \/ recalls[r].result = NoMemories
            \/ StartsWith(recalls[r].result, SearchFailedPrefix)

\* The store has failed a remember call and a recall call, and each has
\* returned the description of the error.
C25_Witness ==
  /\ \E r \in DOMAIN remembers :
       /\ remembers[r].storeCalls = 1
       /\ remembers[r].st = "returned"
       /\ StartsWith(remembers[r].result, StoreFailedPrefix)
  /\ \E r \in DOMAIN recalls :
       /\ Len(recalls[r].searches) = 1
       /\ recalls[r].st = "returned"
       /\ StartsWith(recalls[r].result, SearchFailedPrefix)

\* The manifest passes the validation: the file can be read and parsed, it
\* has an identifier and a description of at least 20 characters.
ValidManifest(m) ==
  /\ ManifestTable[m].readable
  /\ ManifestTable[m].parsable
  /\ ManifestTable[m].hasName
  /\ ManifestTable[m].hasDescription
  /\ Len(ManifestTable[m].description) >= 20

InvalidManifest(m) == ~ValidManifest(m)

SkillTools(p) ==
  { t \in DOMAIN plugins[p].tools : plugins[p].tools[t].kind = "skill" }

\* C26: after the discovery the loaded skills are exactly the manifests of
\* the directory that pass the validation, in the order found, whatever
\* stands before or after them; a warning was given for each of the others;
\* a tool is registered under the name of every valid manifest and under no
\* other name; a directory of one manifest with a description too short and
\* one valid manifest gives exactly one skill and one tool.
C26_ValidManifestsRegistered ==
  \A p \in DOMAIN plugins :
    plugins[p].pc = "loaded" =>
      LET valid == SelectSeq(skillsDir, ValidManifest)
          skills == plugins[p].skills
      IN /\ [k \in DOMAIN skills |-> skills[k].path] = valid
         /\ plugins[p].warned = SelectSeq(skillsDir, InvalidManifest)
         /\ SkillTools(p) =
              { ToolName(ManifestTable[valid[k]].name) : k \in DOMAIN valid }
         /\ skillsDir \in {<<1, 2>>, <<2, 1>>} =>
              /\ Len(skills) = 1
              /\ skills[1].path = 1
              /\ plugins[p].warned = <<2>>
              /\ Cardinality(SkillTools(p)) = 1

\* The discovery has found the manifest with the short description before
\* the valid one, and the valid one is registered.
C26_Witness ==
  \E p \in DOMAIN plugins :
    /\ plugins[p].pc = "loaded"
    /\ skillsDir = <<2, 1>>
    /\ Len(plugins[p].skills) = 1
    /\ ToolName(ManifestTable[1].name) \in SkillTools(p)

\* The first manifest of the directory that passes the validation and
\* carries the identifier (0: none).
FirstValid(name) ==
  LET at == { k \in DOMAIN skillsDir :
                ValidManifest(skillsDir[k]) /\ ManifestTable[skillsDir[k]].name = name }
  IN IF at = {} THEN 0
     ELSE skillsDir[CHOOSE k \in at : \A other \in at : k <= other]

\* C27: after the discovery no two loaded skills carry the same identifier;
\* of the valid manifests with one identifier the first found is the one
\* loaded and the one its tool delivers, and a warning was given for each
\* later one.
C27_FirstDuplicateWins ==
  \A p \in DOMAIN plugins :
    plugins[p].pc = "loaded" =>
      LET skills == plugins[p].skills
      IN /\ \A a, b \in DOMAIN skills :
              a # b => skills[a].name # skills[b].name
         /\ \A k \in DOMAIN skillsDir :
              ValidManifest(skillsDir[k])
                /\ FirstValid(ManifestTable[skillsDir[k]].name) # skillsDir[k]
              => \E w \in DOMAIN plugins[p].warned :
                   plugins[p].warned[w] = skillsDir[k]
         /\ \A t \in SkillTools(p) :
              LET skill == skills[plugins[p].tools[t].skill]
              IN skill.path = FirstValid(skill.name)
         /\ \A i \in DOMAIN invocations :
              invocations[i].plugin = p =>
                skills[invocations[i].skill].path
                  = FirstValid(skills[invocations[i].skill].name)

\* The messages invocation i has put into the conversations, in order.
Injected(i) == SelectSeq(session, LAMBDA m : m.by = i)

\* The skill invocation i delivers, and the manifest it was loaded from.
SkillOf(i) == plugins[invocations[i].plugin].skills[invocations[i].skill]

\* The message is the header of the skill: it names the skill.
IsHeader(m, skill) == m.text = HeaderStart \o skill.name \o HeaderEnd \o skill.name

\* The message is the body of the skill: the base path, then the whole
\* content of the manifest it was loaded from.
IsBody(m, skill) ==
  m.text = BaseDirectory \o ManifestTable[skill.path].dir \o <<NL, NL>>
             \o Trim(ManifestTable[skill.path].content)

\* C28: an invocation that has returned the confirmation has put exactly
\* two messages into the conversation of its session: the header of the
\* skill, then its body, both with noReply; at any time what an invocation
\* has injected is the header or the header and the body, in the session
\* that invoked it; the body is requested only when the header is in the
\* conversation; and the confirmation is returned only with both in it.
C28_HeaderThenBody ==
  \A i \in DOMAIN invocations :
    LET inv == invocations[i]
        skill == SkillOf(i)
        msgs == Injected(i)
    IN /\ Len(msgs) <= 2
       /\ Len(msgs) >= 1 => IsHeader(msgs[1], skill)
       /\ Len(msgs) >= 2 => IsBody(msgs[2], skill)
       /\ \A k \in DOMAIN msgs : msgs[k].noReply /\ msgs[k].id = inv.sessionID
       /\ \A k \in DOMAIN inv.sent : inv.sent[k].noReply
       /\ Len(inv.sent) <= Len(msgs) + 1
       /\ Len(inv.sent) >= 2 => Len(msgs) >= 1
       /\ inv.result = Launching \o skill.name =>
            inv.st = "returned" /\ Len(msgs) = 2
       /\ inv.st = "returned" /\ Len(msgs) = 2 =>
            inv.result = Launching \o skill.name

\* Two invocations from different sessions have overlapped and both have
\* returned the confirmation.
C28_Witness ==
  /\ Len(invocations) >= 2
  /\ invocations[1].sessionID # invocations[2].sessionID
  /\ invocations[1].st = "returned" /\ invocations[2].st = "returned"
  /\ Len(Injected(1)) = 2 /\ Len(Injected(2)) = 2
  /\ Len(session) >= 4
  /\ session[1].by = 1 /\ session[2].by = 2
  /\ invocations[1].result = Launching \o SkillOf(1).name

\* C29: an invocation one of whose prompts the host has rejected, the
\* first or the second, has not thrown: it has returned a string that
\* begins "Error loading skill: ", followed by the message of the error or
\* by "Unknown error", and not the confirmation; no invocation has thrown.
C29_FailedInjectionReturnsError ==
  \A i \in DOMAIN invocations :
    LET inv == invocations[i]
    IN /\ inv.st # "thrown"
       /\ inv.error # 0 =>
            /\ inv.st = "returned"
            /\ StartsWith(inv.result, ErrorLoading)
            /\ Len(inv.result) > Len(ErrorLoading)
            /\ PromptErrors[inv.error].hasMessage
                 => Includes(inv.result, PromptErrors[inv.error].message)
            /\ inv.result # Launching \o SkillOf(i).name
            /\ ~StartsWith(inv.result, Launching)
            /\ Len(Injected(i)) < 2

\* The host has rejected the header of one invocation, with an error
\* without message, and the body of another.
C29_Witness ==
  /\ \E i \in DOMAIN invocations :
       /\ invocations[i].error # 0
       /\ ~PromptErrors[invocations[i].error].hasMessage
       /\ Len(Injected(i)) = 0
       /\ invocations[i].result = ErrorLoading \o UnknownErrorText
  /\ \E i \in DOMAIN invocations :
       /\ invocations[i].error # 0
       /\ Len(Injected(i)) = 1
       /\ invocations[i].st = "returned"

\* C30: once a plugin has returned from its start, no step changes its
\* skills, its tools or the warnings of its discovery, whether the step is
\* a chat message, a step of the queue or the store, a call of remember or
\* recall, or a step of a skill's invocation; and no step of an invocation
\* adds a job to the queue, starts or ends one, or sends or settles a
\* request to the store.
C30_BundlesFixedDeliveryApart ==
  [][ /\ \A p \in DOMAIN plugins :
           plugins[p].returned =>
             /\ p \in DOMAIN plugins'
             /\ plugins'[p].skills = plugins[p].skills
             /\ plugins'[p].tools = plugins[p].tools
             /\ plugins'[p].warned = plugins[p].warned
      /\ skillsDir' = skillsDir
      /\ (invocations' # invocations \/ session' # session) =>
           UNCHANGED <<outputs, calls, jobs, waiting, pending, requests,
                       storeLog, remembers, recalls, exit, unhandled>>
    ]_vars

\* An invocation has delivered both messages and returned while one write
\* of the queue is in flight and another job waits behind it.
C30_Witness ==
  /\ \E i \in DOMAIN invocations :
       invocations[i].st = "returned" /\ Len(Injected(i)) = 2
  /\ Len(waiting) > 0
  /\ pending = 1
  /\ \E r \in requests : r.by = "job"
  /\ \A j \in DOMAIN jobs : jobs[j].st # "settled"

\* C34: the content a remember call passes to thread.addMessages, the
\* prefix "[MEMORY] " and the trimmed fact, is of at most 2500 characters.
C34_RememberPayloadBounded ==
  \A req \in requests :
    req.by = "remember" =>
      /\ req.len = Len(MemoryPrefix \o Trim(FactTable[req.texts[1]].chars))
      /\ req.len <= DIRECT_LIMIT

\* The position in the store log of the answer to segment seg of job j
\* (0: not answered).
AnswerAt(j, seg, ev) ==
  LET at == { k \in DOMAIN storeLog :
                /\ storeLog[k].req.n = j
                /\ storeLog[k].req.seg = seg
                /\ storeLog[k].ev = ev }
  IN IF at = {} THEN 0 ELSE CHOOSE k \in at : TRUE

\* C36: the segments of a job that have been sent to the store are the
\* first segments of the job's text, in order, each of the length
\* chunkMessage gives it; a segment is sent only after the store has
\* accepted the one before it; after the store has failed a segment nothing
\* more of the job is sent; and nothing the job sends takes back a segment
\* the store has accepted.
C36_SegmentsSentArePrefix ==
  \A j \in DOMAIN jobs :
    Len(JobText(j)) > DIRECT_LIMIT =>
      LET issues == JobIssues(j)
          chunks == chunkMessage(JobText(j), SEGMENT_LIMIT)
      IN /\ Len(issues) <= Len(chunks)
         /\ \A k \in DOMAIN issues :
              /\ issues[k].req.op = "graph.add"
              /\ issues[k].req.seg = k - 1
              /\ issues[k].req.len = Len(chunks[k])
         /\ \A b \in DOMAIN storeLog :
              (storeLog[b].req.n = j /\ storeLog[b].ev = "issue"
                 /\ storeLog[b].req.seg > 0)
              => AnswerAt(j, storeLog[b].req.seg - 1, "ok") \in 1..(b - 1)
         /\ \A a, b \in DOMAIN storeLog :
              (a < b /\ storeLog[a].req.n = j /\ storeLog[a].ev = "fail")
              => storeLog[b].req.n # j
         /\ \A seg \in 0..(Len(chunks) - 1) :
              AnswerAt(j, seg, "fail") # 0 =>
                /\ \A r \in requests : ~(r.by = "job" /\ r.n = j)
                /\ Len(issues) = seg + 1
                /\ \A before \in 0..(seg - 1) : AnswerAt(j, before, "ok") # 0

\* The store has accepted the first segment of a message of three segments
\* and failed the second; the third was never sent and the job has ended.
C36_Witness ==
  \E j \in DOMAIN jobs :
    /\ Len(chunkMessage(JobText(j), SEGMENT_LIMIT)) = 3
    /\ AnswerAt(j, 0, "ok") # 0
    /\ AnswerAt(j, 1, "fail") # 0
    /\ Len(JobIssues(j)) = 2
    /\ jobs[j].st = "settled"

\* The ensure calls of plugin p are over: each was answered or was never
\* made, and the start has left the try block.
EnsureFinished(p) ==
  /\ plugins[p].userAdd # "pending"
  /\ plugins[p].threadCreate # "pending"
  /\ plugins[p].pc \notin {"user.add", "thread.create"}

\* C37: thread.create is called only after user.add has come to an end
\* without a rethrown error; nothing is appended to the thread and nothing
\* is searched before the ensure calls of the plugin are over; after a
\* user.add that failed with an error that is no conflict thread.create is
\* never called, the start is not given up, and once it has returned, the
\* object it returned has the chat.message hook and the tools.
C37_SetupPrecedesWritesAndDegrades ==
  /\ \A p \in DOMAIN plugins :
       LET pl == plugins[p]
       IN /\ pl.threadCreate # "not called" => pl.userAdd \in {"ok", "ignored"}
          /\ pl.userAdd = "pending" => pl.threadCreate = "not called"
          /\ pl.userAnswer \in FailureErrors => pl.threadCreate = "not called"
          /\ pl.env.ZEP_API_KEY =>
               pl.pc \in {"user.add", "thread.create", "ready", "loaded"}
          /\ (pl.env.ZEP_API_KEY /\ pl.pc \in {"ready", "loaded"}) =>
               EnsureFinished(p)
          /\ (pl.env.ZEP_API_KEY /\ pl.returned) =>
               /\ pl.pc = "loaded"
               /\ pl.hooks = {"chat.message", "tool"}
               /\ {RememberName, RecallName} \subseteq DOMAIN pl.tools
  /\ (requests # {} \/ storeLog # <<>> \/ recalls # <<>> \/ remembers # <<>>
        \/ calls # <<>>) =>
       \E p \in DOMAIN plugins : plugins[p].returned /\ EnsureFinished(p)

\* user.add failed with a server error, thread.create was not called, the
\* start returned its hooks all the same, and the host has since had a
\* message written, a fact remembered and a search made.
C37_Witness ==
  \E p \in DOMAIN plugins :
    /\ plugins[p].userAnswer \in FailureErrors
    /\ plugins[p].threadCreate = "not called"
    /\ plugins[p].critical
    /\ HasHook(p, "chat.message")
    /\ HasTool(p, RememberName)
    /\ \E k \in DOMAIN storeLog :
         storeLog[k].ev = "issue" /\ storeLog[k].req.by = "job"
    /\ \E r \in DOMAIN remembers : remembers[r].storeCalls = 1
    /\ \E r \in DOMAIN recalls : Len(recalls[r].searches) = 1

\* The places in the conversations of the messages invocation i has put in.
PlacesOf(i) == { k \in DOMAIN session : session[k].by = i }

\* C39: every step leaves the conversations such that what an invocation
\* has put in is its header alone or its header at an earlier place than
\* its body, whatever other invocations have put in between; the prompt of
\* the body is made only in the step in which the prompt of the header
\* resolves and puts the header into the conversation; and an invocation a
\* prompt of which was rejected makes no further prompt and puts nothing
\* more into a conversation.
C39_HeaderBeforeOwnBody ==
  [][ \A i \in DOMAIN invocations :
        LET inv == invocations[i]
            skill == SkillOf(i)
        IN /\ i \in DOMAIN invocations'
           /\ \A k \in PlacesOf(i)' :
                \/ IsHeader(session'[k], skill)
                     /\ \A h \in PlacesOf(i)' : h >= k
                \/ IsBody(session'[k], skill)
                     /\ \E h \in PlacesOf(i)' :
                          h < k /\ IsHeader(session'[h], skill)
           /\ Len(invocations'[i].sent) > Len(inv.sent) =>
                /\ Len(inv.sent) = 1
                /\ Len(invocations'[i].sent) = 2
                /\ inv.error = 0 /\ invocations'[i].error = 0
                /\ PlacesOf(i) = {}
                /\ \E k \in PlacesOf(i)' : IsHeader(session'[k], skill)
           /\ inv.error # 0 =>
                /\ invocations'[i].sent = inv.sent
                /\ PlacesOf(i)' = PlacesOf(i)
           /\ invocations'[i].error # 0 /\ inv.error = 0 =>
                /\ invocations'[i].sent = inv.sent
                /\ PlacesOf(i)' = PlacesOf(i)
                /\ Len(inv.sent) = 1 => PlacesOf(i) = {}
    ]_vars

\* Two invocations have run at once in one session: the first put in its
\* header, then the second its own; the body of the second was rejected,
\* and the first put in its body after the header of the second.
C39_Witness ==
  /\ Len(invocations) = 2
  /\ invocations[1].sessionID = invocations[2].sessionID
  /\ Len(session) = 3
  /\ session[1].by = 1 /\ session[2].by = 2 /\ session[3].by = 1
  /\ invocations[2].error # 0 /\ Len(invocations[2].sent) = 2
  /\ invocations[1].st = "returned"

\* C40: whatever the discovery has loaded, the tools object the plugin
\* returns has remember and recall as line 201 built them; every tool of a
\* skill has a name that begins "skills_"; and every loaded skill is the
\* one the tool of its own name delivers.
C40_MemoryToolsKeptSkillsReachable ==
  \A p \in DOMAIN plugins :
    plugins[p].pc = "loaded" =>
      LET tools == plugins[p].tools
          skills == plugins[p].skills
      IN /\ RememberName \in DOMAIN tools
         /\ tools[RememberName] = BaseTools[RememberName]
         /\ RecallName \in DOMAIN tools
         /\ tools[RecallName] = BaseTools[RecallName]
         /\ \A t \in SkillTools(p) : StartsWith(t, SkillsPrefix)
         /\ DOMAIN tools = {RememberName, RecallName} \cup SkillTools(p)
         /\ \A k \in DOMAIN skills :
              LET t == ToolName(skills[k].name)
              IN /\ t \in SkillTools(p)
                 /\ tools[t].skill = k

\* How often the item stands in the list.
Occurrences(list, item) == Cardinality({ k \in DOMAIN list : list[k] = item })

\* One of the merges made had the overwrite flag set.
Overwritten == \E k \in DOMAIN merged.options : merged.options[k].overwrite

VerifyFailed ==
  \/ ~Truthy(KeyTable[setup.env.ZEP_API_KEY])
  \/ ~Truthy(UserTable[setup.env.ZEP_USER_ID])
  \/ ~StartsWith(KeyTable[setup.env.ZEP_API_KEY].chars, ZepPrefix)
  \/ setup.userGet = "error"
  \/ setup.userAdd = "failed"

\* One sequence is the beginning of the other.
IsPrefix(short, long) ==
  Len(short) <= Len(long) /\ SubSeq(long, 1, Len(short)) = short

\* C33: the steps of a run are entered in the order verify, setupAgents,
\* setupPrompts, each after the one before has returned; a run whose
\* verification failed has exited with code 1 without entering setupAgents
\* or setupPrompts, and opencode.json, its backup and the prompts directory
\* are as they were before the run.
C33_SetupGatedByVerification ==
  /\ IsPrefix(setup.steps, <<"verify", "setupAgents", "setupPrompts">>)
  /\ setup.pc \in {"user.get", "user.add"} => setup.steps = <<"verify">>
  /\ setup.pc \in {"backup", "write"} => setup.steps = <<"verify", "setupAgents">>
  /\ setup.pc \in {"mkdir", "copy"} => Len(setup.steps) = 3
  /\ (setup.pc # "off" /\ VerifyFailed) =>
       /\ setup.pc = "exited"
       /\ setup.exitCode = 1
       /\ setup.steps = <<"verify">>
       /\ disk = setup.start
  /\ (setup.pc # "off" /\ Len(setup.steps) < 2) => disk = setup.start
  /\ (setup.pc # "off" /\ Len(setup.steps) < 3) =>
       \A p \in AllPaths \ {ConfigPath, BackupPath(ConfigPath)} :
         disk[p] = setup.start[p]
  /\ setup.exitCode = 0 => (Len(setup.steps) = 3 /\ ~VerifyFailed)

\* A run with the overwrite flag in a project with the user's opencode.json
\* and prompts found no user in the store, failed to create one, and
\* exited with code 1 with every file as it was.
C33_Witness ==
  /\ setup.pc = "exited"
  /\ setup.flags.overwrite
  /\ setup.userGet = "404" /\ setup.userAdd = "failed"
  /\ setup.exitCode = 1
  /\ setup.error = "Zep connection failed"
  /\ disk[ConfigPath] = ConfigFile(UserConfig)
  /\ ~disk[BackupPath(ConfigPath)].exists
  /\ disk[PromptPath(FullstackMd)].text = "user prompt"

\* The output object of call c as it was when chat.message was called.
Submitted(c) ==
  IF "submitted" \in DOMAIN outputs[c] THEN outputs[c].submitted ELSE outputs[c]

\* C35: every write a job has sent to the store carries the text the
\* output of its call had when chat.message was called, and a direct write
\* the role it had then, whatever the host has made of the output while
\* the job waited in the queue.
C35_WritesContentAtSubmission ==
  \A k \in DOMAIN storeLog :
    LET req == storeLog[k].req
    IN req.by = "job" =>
         /\ req.texts = PartTexts(Submitted(req.n).parts)
         /\ req.op = "thread.addMessages" =>
              req.role = StoreRole(Submitted(req.n).role)

\* The step is a call of remember or recall that reaches the store.
ToolCallReachesStore ==
  \/ /\ Len(remembers') = Len(remembers) + 1
     /\ remembers'[Len(remembers')].storeCalls = 1
  \/ /\ Len(recalls') = Len(recalls) + 1
     /\ Len(recalls'[Len(recalls')].searches) = 1

\* Every request job c has sent has been answered, none is with the store,
\* and the job has ended.
WriteSettled(c) ==
  /\ JobEnded(c)
  /\ \A r \in requests : ~(r.by = "job" /\ r.n = c)
  /\ \A k \in DOMAIN JobIssues(c) :
       \E e \in DOMAIN storeLog :
         /\ storeLog[e].ev \in {"ok", "fail"}
         /\ storeLog[e].req = JobIssues(c)[k].req

====
